---------------------------- MODULE Spec2Model ----------------------------
(***************************************************************************)
(* blart: the tool-calling review loop (src/src/main.rs, run_review), the  *)
(* chat client's screening of a response (src/src/client/mod.rs, chat)     *)
(* and the two file tools the loop dispatches to (src/src/tools.rs).       *)
(*                                                                         *)
(* Text is modelled by TLA+ strings.  A text that the program builds line  *)
(* by line (a tool's output, stdout) is the sequence of its lines, each    *)
(* line standing for the line followed by "\n".  Option<T> is a sequence   *)
(* of length 0 (None) or 1 (Some).                                         *)
(***************************************************************************)
EXTENDS Integers, Sequences, FiniteSets, TLC

VARIABLES
    messages,         \* run_review: the transcript, Vec<Message>
    tool_calls_used,  \* run_review: the counter of tool calls
    pc,               \* where run_review is
    pending,          \* the tool calls of the batch the for loop has not reached
    api_requests,     \* number of client.chat requests issued
    stdout,           \* lines printed by println!
    error,            \* the Err run_review returned, None while it has none
    disk,             \* the filesystem the tools read
    call,             \* the last direct call of a tool function (unit-test style)
    result            \* what that call returned

vars == <<messages, tool_calls_used, pc, pending, api_requests, stdout, error,
          disk, call, result>>

loopVars == <<messages, tool_calls_used, pc, pending, api_requests, stdout, error>>

---------------------------------------------------------------------------
(* Program constants.                                                      *)

MAX_TOOL_CALLS == 8
DEFAULT_READ_LIMIT == 2000
MAX_READ_LIMIT == 2000
MAX_LINE_LENGTH == 2000
MAX_SEARCH_MATCHES == 50
SEARCH_CONTEXT_LINES == 1

(* Bounds of the model.                                                    *)

MaxRequests == 10     \* API requests of one run
MaxTurns == 6         \* API requests of one run under the unrestricted API
MaxBatch == 2         \* tool calls in one assistant message
MaxFileLines == 3     \* lines of a generated file
MaxOffset == 4        \* largest offset / anchor_line argument tried
MaxLimit == 3         \* largest small limit argument tried
MaxLevels == 2        \* largest max_levels argument tried
MaxLines == 2         \* largest max_lines argument tried

---------------------------------------------------------------------------
(* Option and Result.                                                      *)

None == <<>>
Some(x) == <<x>>
IsSome(o) == Len(o) = 1
Unwrap(o) == o[1]
UnwrapOr(o, d) == IF IsSome(o) THEN o[1] ELSE d

Ok(v) == [ok |-> TRUE, value |-> v]
Err(e) == [ok |-> FALSE, value |-> e]

Min(a, b) == IF a <= b THEN a ELSE b
Max(a, b) == IF a >= b THEN a ELSE b
SaturatingSub(a, b) == IF a >= b THEN a - b ELSE 0

---------------------------------------------------------------------------
(* Strings: char::is_whitespace, str::trim, str::contains, str::ends_with. *)

IsWhitespace(c) == c \in {" ", "\t", "\n", "\r"}

RECURSIVE TrimStart(_)
TrimStart(s) ==
    IF Len(s) = 0 THEN s
    ELSE IF IsWhitespace(SubSeq(s, 1, 1)) THEN TrimStart(SubSeq(s, 2, Len(s)))
    ELSE s

RECURSIVE TrimEnd(_)
TrimEnd(s) ==
    IF Len(s) = 0 THEN s
    ELSE IF IsWhitespace(SubSeq(s, Len(s), Len(s)))
         THEN TrimEnd(SubSeq(s, 1, Len(s) - 1))
    ELSE s

Trim(s) == TrimEnd(TrimStart(s))

Contains(s, pat) ==
    \E i \in 1..(Len(s) - Len(pat) + 1) : SubSeq(s, i, i + Len(pat) - 1) = pat

EndsWith(s, suffix) ==
    /\ Len(s) >= Len(suffix)
    /\ SubSeq(s, Len(s) - Len(suffix) + 1, Len(s)) = suffix

RECURSIVE Spaces(_)
Spaces(n) == IF n <= 0 THEN "" ELSE " " \o Spaces(n - 1)

\* format!("{:>6}", n): right-aligned in a field of 6, never cut.
PadLeft6(n) == Spaces(6 - Len(ToString(n))) \o ToString(n)


---------------------------------------------------------------------------
(* The filesystem: the entries in the order a directory walk visits them   *)
(* (a directory before what it holds).  comps are the path's components,   *)
(* kind is "dir", "file" or "symlink", readable says whether               *)
(* fs::read_to_string succeeds, lines is contents.lines().                 *)

RECURSIVE JoinPath(_)
JoinPath(comps) ==
    IF Len(comps) = 0 THEN ""
    ELSE IF Len(comps) = 1 THEN comps[1]
    ELSE comps[1] \o "/" \o JoinPath(Tail(comps))

PathStr(e) == JoinPath(e.comps)

Entry(comps, kind, readable, lines) ==
    [comps |-> comps, kind |-> kind, readable |-> readable, lines |-> lines]

Lookup(d, path) == {i \in 1..Len(d) : PathStr(d[i]) = path}

\* fs::read_to_string(path): the lines of the text, or the io error.
ReadToString(d, path) ==
    IF Lookup(d, path) = {} THEN Err("No such file or directory (os error 2)")
    ELSE LET e == d[CHOOSE i \in Lookup(d, path) : TRUE] IN
         IF e.kind = "dir" THEN Err("Is a directory (os error 21)")
         ELSE IF ~e.readable THEN Err("stream did not contain valid UTF-8")
         ELSE Ok(e.lines)

\* lines[i] of the source, whose indices start at 0.
At(lines, i) == lines[i + 1]

IsBlank(line) == Len(Trim(line)) = 0

---------------------------------------------------------------------------
(* Formatting.                                                             *)

format_tool_error(tool, message) == <<"ERROR (" \o tool \o "): " \o message>>

truncate_line(line) ==
    IF Len(line) <= MAX_LINE_LENGTH THEN line
    ELSE SubSeq(line, 1, MAX_LINE_LENGTH) \o "..."

NumberedLine(line_number, line) ==
    PadLeft6(line_number) \o "| " \o truncate_line(line)

format_file_output(path, lines) ==
    IF Len(lines) = 0 THEN <<"FILE: " \o path, "(no lines in range)">>
    ELSE <<"FILE: " \o path>> \o lines

\* What a call returns when an index or a range is out of bounds: the
\* process panics instead of returning.
Panic == <<"<panic>">>

---------------------------------------------------------------------------
(* read_file, slice mode.  ReadFileArgs is the record [path, mode, offset, *)
(* limit, indentation], its optional fields Options.                       *)

ReadFileArgs(path, mode, offset, limit, indentation) ==
    [path |-> path, mode |-> mode, offset |-> offset, limit |-> limit,
     indentation |-> indentation]

SliceOffset(args) == Max(UnwrapOr(args.offset, 1), 1)

\* line 209 without the cap
SliceLimitUncapped(args) == UnwrapOr(args.limit, DEFAULT_READ_LIMIT)

SliceLimit(args) == Min(UnwrapOr(args.limit, DEFAULT_READ_LIMIT), MAX_READ_LIMIT)

\* read_file_slice reporting a start beyond the file as an error
read_file_slice_range_error(path, lines, args) ==
    LET offset == SliceOffset(args)
        limit == SliceLimit(args)
        start_index == SaturatingSub(offset, 1)
        end_index == Min(start_index + limit, Len(lines))
    IN  IF Len(lines) = 0 THEN format_file_output(path, <<>>)
        ELSE IF start_index >= Len(lines)
        THEN format_tool_error("read_file", "offset is past the end of " \o path)
        ELSE format_file_output(path,
                [i \in 1..(end_index - start_index) |->
                    NumberedLine(offset + (i - 1), At(lines, start_index + (i - 1)))])

\* read_file_slice taking the 1-based offset as the 0-based start
read_file_slice_start_at_offset(path, lines, args) ==
    LET offset == SliceOffset(args)
        limit == SliceLimit(args)
        start_index == offset
        end_index == Min(start_index + limit, Len(lines))
    IN  IF Len(lines) = 0 THEN format_file_output(path, <<>>)
        ELSE IF start_index >= Len(lines) THEN format_file_output(path, <<>>)
        ELSE format_file_output(path,
                [i \in 1..(end_index - start_index) |->
                    NumberedLine(offset + (i - 1), At(lines, start_index + (i - 1)))])

read_file_slice(path, lines, args) ==
    LET offset == SliceOffset(args)
        limit == SliceLimit(args)
        start_index == SaturatingSub(offset, 1)
        end_index == Min(start_index + limit, Len(lines))
    IN  IF Len(lines) = 0 THEN format_file_output(path, <<>>)
        ELSE IF start_index >= Len(lines) THEN format_file_output(path, <<>>)
        ELSE IF start_index > end_index THEN Panic
        ELSE format_file_output(path,
                [i \in 1..(end_index - start_index) |->
                    NumberedLine(offset + (i - 1), At(lines, start_index + (i - 1)))])

---------------------------------------------------------------------------
(* read_file, indentation mode.                                            *)

IndentationOptions(anchor_line, max_levels, include_siblings, include_header, max_lines) ==
    [anchor_line |-> anchor_line, max_levels |-> max_levels,
     include_siblings |-> include_siblings, include_header |-> include_header,
     max_lines |-> max_lines]

RECURSIVE line_indent(_)
line_indent(line) ==
    IF Len(line) = 0 THEN 0
    ELSE IF ~IsWhitespace(SubSeq(line, 1, 1)) THEN 0
    ELSE (IF SubSeq(line, 1, 1) = "\t" THEN 4 ELSE 1)
         + line_indent(SubSeq(line, 2, Len(line)))

RECURSIVE FirstNonBlankUp(_, _)
\* the "while up > 0" loop: the nearest non-blank index below up, or None
FirstNonBlankUp(lines, up) ==
    IF up > 0
    THEN IF ~IsBlank(At(lines, up - 1)) THEN Some(up - 1)
         ELSE FirstNonBlankUp(lines, up - 1)
    ELSE None

RECURSIVE FirstNonBlankDown(_, _)
\* the "while down < lines.len()" loop
FirstNonBlankDown(lines, down) ==
    IF down < Len(lines)
    THEN IF ~IsBlank(At(lines, down)) THEN Some(down)
         ELSE FirstNonBlankDown(lines, down + 1)
    ELSE None

find_non_blank_line(lines, index) ==
    IF ~IsBlank(At(lines, index)) THEN index
    ELSE IF IsSome(FirstNonBlankUp(lines, index))
         THEN Unwrap(FirstNonBlankUp(lines, index))
    ELSE IF IsSome(FirstNonBlankDown(lines, index + 1))
         THEN Unwrap(FirstNonBlankDown(lines, index + 1))
    ELSE index

RECURSIVE find_block_start_up_at_boundary(_, _, _)
\* find_block_start_up returning the boundary line itself
find_block_start_up_at_boundary(lines, anchor, base_indent) ==
    IF anchor > 0
    THEN LET prev == anchor - 1
             line == At(lines, prev)
         IN  IF IsBlank(line)
             THEN find_block_start_up_at_boundary(lines, prev, base_indent)
             ELSE IF line_indent(line) <= base_indent THEN prev
             ELSE find_block_start_up_at_boundary(lines, prev, base_indent)
    ELSE 0

RECURSIVE find_block_start_up(_, _, _)
\* idx of the loop is the parameter anchor
find_block_start_up(lines, anchor, base_indent) ==
    IF anchor > 0
    THEN LET prev == anchor - 1
             line == At(lines, prev)
         IN  IF IsBlank(line) THEN find_block_start_up(lines, prev, base_indent)
             ELSE IF line_indent(line) <= base_indent THEN prev + 1
             ELSE find_block_start_up(lines, prev, base_indent)
    ELSE 0

RECURSIVE BlockEndDownFrom(_, _, _)
BlockEndDownFrom(lines, idx, base_indent) ==
    IF idx < Len(lines)
    THEN LET line == At(lines, idx)
         IN  IF IsBlank(line) THEN BlockEndDownFrom(lines, idx + 1, base_indent)
             ELSE IF line_indent(line) <= base_indent THEN SaturatingSub(idx, 1)
             ELSE BlockEndDownFrom(lines, idx + 1, base_indent)
    ELSE Len(lines) - 1

\* find_block_end_down ending the block on the boundary line itself
find_block_end_down_at_boundary(lines, anchor, base_indent) ==
    Min(BlockEndDownFrom(lines, anchor + 1, base_indent) + 1, Len(lines) - 1)

find_block_end_down(lines, anchor, base_indent) ==
    BlockEndDownFrom(lines, anchor + 1, base_indent)

\* find_parent_boundary_up stopping at a line of the anchor's own indent
find_parent_boundary_up_not_strict(lines, anchor, base_indent) ==
    find_block_start_up(lines, anchor, base_indent)

RECURSIVE find_parent_boundary_up(_, _, _)
find_parent_boundary_up(lines, anchor, base_indent) ==
    IF anchor > 0
    THEN LET prev == anchor - 1
             line == At(lines, prev)
         IN  IF IsBlank(line) THEN find_parent_boundary_up(lines, prev, base_indent)
             ELSE IF line_indent(line) < base_indent THEN prev + 1
             ELSE find_parent_boundary_up(lines, prev, base_indent)
    ELSE 0

RECURSIVE ParentBoundaryDownFrom(_, _, _)
ParentBoundaryDownFrom(lines, idx, base_indent) ==
    IF idx < Len(lines)
    THEN LET line == At(lines, idx)
         IN  IF IsBlank(line) THEN ParentBoundaryDownFrom(lines, idx + 1, base_indent)
             ELSE IF line_indent(line) < base_indent THEN SaturatingSub(idx, 1)
             ELSE ParentBoundaryDownFrom(lines, idx + 1, base_indent)
    ELSE Len(lines) - 1

find_parent_boundary_down(lines, anchor, base_indent) ==
    ParentBoundaryDownFrom(lines, anchor + 1, base_indent)

RECURSIVE ExpandLoop(_, _, _, _, _, _)
\* the while loop of expand_start_for_levels over (start, current_indent,
\* levels, idx)
ExpandLoop(lines, start, current_indent, levels, idx, max_levels) ==
    IF idx > 0
    THEN LET i == idx - 1
             line == At(lines, i)
             indent == line_indent(line)
         IN  IF IsBlank(line)
             THEN ExpandLoop(lines, start, current_indent, levels, i, max_levels)
             ELSE IF indent < current_indent
             THEN IF levels + 1 > max_levels THEN i + 1
                  ELSE ExpandLoop(lines, i, indent, levels + 1, i, max_levels)
             ELSE ExpandLoop(lines, start, current_indent, levels, i, max_levels)
    ELSE start

RECURSIVE ExpandLoopToAncestor(_, _, _, _, _, _)
\* the loop stopping at the last ancestor taken when the cap is passed
ExpandLoopToAncestor(lines, start, current_indent, levels, idx, max_levels) ==
    IF idx > 0
    THEN LET i == idx - 1
             line == At(lines, i)
             indent == line_indent(line)
         IN  IF IsBlank(line)
             THEN ExpandLoopToAncestor(lines, start, current_indent, levels, i, max_levels)
             ELSE IF indent < current_indent
             THEN IF levels + 1 > max_levels THEN start
                  ELSE ExpandLoopToAncestor(lines, i, indent, levels + 1, i, max_levels)
             ELSE ExpandLoopToAncestor(lines, start, current_indent, levels, i, max_levels)
    ELSE start

expand_start_for_levels_to_ancestor(lines, start, base_indent, max_levels) ==
    ExpandLoopToAncestor(lines, start, base_indent, 0, start, max_levels)

expand_start_for_levels(lines, start, base_indent, max_levels) ==
    ExpandLoop(lines, start, base_indent, 0, start, max_levels)

RECURSIVE HeaderLoop(_, _, _, _)
\* the for loop of find_header_end at 0-based position i
HeaderLoop(lines, i, seen_non_blank, end) ==
    IF i >= Len(lines) THEN end
    ELSE IF IsBlank(At(lines, i))
         THEN IF seen_non_blank THEN i + 1
              ELSE HeaderLoop(lines, i + 1, seen_non_blank, i + 1)
    ELSE HeaderLoop(lines, i + 1, TRUE, i + 1)

find_header_end(lines) == HeaderLoop(lines, 0, FALSE, 0)

\* indentation.and_then(|opt| opt.field)
IndentOpt(args, field) ==
    IF IsSome(args.indentation) THEN Unwrap(args.indentation)[field] ELSE None

\* lines 237-250: the options with their defaults
IndentationDefaults(args) ==
    [anchor_line |-> Max(UnwrapOr(IndentOpt(args, "anchor_line"), 1), 1),
     include_siblings |-> UnwrapOr(IndentOpt(args, "include_siblings"), FALSE),
     include_header |-> UnwrapOr(IndentOpt(args, "include_header"), TRUE),
     max_levels |-> UnwrapOr(IndentOpt(args, "max_levels"), 0),
     max_lines |-> IndentOpt(args, "max_lines")]

\* lines 277-285 allowing max_lines lines after the start line
ClampEndOffByOne(start_index, end_index, max_lines) ==
    LET end2 == IF end_index < start_index THEN start_index ELSE end_index
    IN  IF IsSome(max_lines)
        THEN Min(end2, start_index + Max(Unwrap(max_lines), 1))
        ELSE end2

\* lines 277-285: the end boundary against the start and max_lines
ClampEnd(start_index, end_index, max_lines) ==
    LET end2 == IF end_index < start_index THEN start_index ELSE end_index
    IN  IF IsSome(max_lines)
        THEN Min(end2, start_index + SaturatingSub(Max(Unwrap(max_lines), 1), 1))
        ELSE end2

\* lines 270-275 moving the start to the header's end whatever the start
HeaderStartAlways(include_header, header_end, start_index) ==
    IF include_header THEN header_end ELSE start_index

\* lines 270-275: the start boundary against the file header
HeaderStart(include_header, header_end, start_index) ==
    IF include_header /\ header_end < start_index THEN header_end ELSE start_index

\* lines 266-268
LevelsStart(lines, start_index, base_indent, max_levels) ==
    IF max_levels > 0
    THEN expand_start_for_levels(lines, start_index, base_indent, max_levels)
    ELSE start_index

\* lines 255-259
BlockStart(lines, anchor_index, base_indent, include_siblings) ==
    IF include_siblings
    THEN find_parent_boundary_up(lines, anchor_index, base_indent)
    ELSE find_block_start_up(lines, anchor_index, base_indent)

\* lines 260-264
BlockEnd(lines, anchor_index, base_indent, include_siblings) ==
    IF include_siblings
    THEN find_parent_boundary_down(lines, anchor_index, base_indent)
    ELSE find_block_end_down(lines, anchor_index, base_indent)

\* lines 277-285 on the boundaries found
RangeOf(anchor_index, base_indent, start_index, end_index, max_lines) ==
    [anchor_index |-> anchor_index, base_indent |-> base_indent,
     start_index |-> start_index,
     end_index |-> ClampEnd(start_index, end_index, max_lines)]

\* lines 255-285 for the resolved anchor and its indent
RangeAt(lines, o, anchor_index, base_indent) ==
    RangeOf(anchor_index, base_indent,
            HeaderStart(o.include_header, find_header_end(lines),
                LevelsStart(lines,
                    BlockStart(lines, anchor_index, base_indent, o.include_siblings),
                    base_indent, o.max_levels)),
            BlockEnd(lines, anchor_index, base_indent, o.include_siblings),
            o.max_lines)

\* line 253
RangeAtAnchor(lines, o, anchor_index) ==
    RangeAt(lines, o, anchor_index, line_indent(At(lines, anchor_index)))

\* The block of read_file_indentation as 0-based [start_index, end_index],
\* lines 237-285; lines is not empty.
IndentationRange(lines, args) ==
    RangeAtAnchor(lines, IndentationDefaults(args),
        find_non_blank_line(lines,
            Min(SaturatingSub(IndentationDefaults(args).anchor_line, 1),
                Len(lines) - 1)))

\* lines 287-293: lines[start_index..=end_index], numbered
FormatRange(path, lines, start_index, end_index) ==
    IF start_index > end_index + 1 \/ end_index >= Len(lines) THEN Panic
    ELSE format_file_output(path,
            [i \in 1..(end_index + 1 - start_index) |->
                NumberedLine(start_index + 1 + (i - 1),
                             At(lines, start_index + (i - 1)))])

FormatRangeOf(path, lines, r) ==
    FormatRange(path, lines, r.start_index, r.end_index)

\* read_file_indentation answering an empty file with an error
read_file_indentation_empty_error(path, lines, args) ==
    IF Len(lines) = 0 THEN format_tool_error("read_file", "empty file: " \o path)
    ELSE FormatRangeOf(path, lines, IndentationRange(lines, args))

read_file_indentation(path, lines, args) ==
    IF Len(lines) = 0 THEN format_file_output(path, <<>>)
    ELSE FormatRangeOf(path, lines, IndentationRange(lines, args))

ReadContents(args, contents) ==
    IF ~contents.ok
    THEN format_tool_error("read_file",
            "Failed to read " \o args.path \o ": " \o contents.value)
    ELSE IF args.mode = Some("indentation")
    THEN read_file_indentation(args.path, contents.value, args)
    ELSE read_file_slice(args.path, contents.value, args)

read_file(d, args) == ReadContents(args, ReadToString(d, args.path))

---------------------------------------------------------------------------
(* search_files.  The regex and glob crates are modelled on the patterns   *)
(* the model uses: a pattern without metacharacters matches a line that    *)
(* contains it, ".*" matches every line, "(" does not compile; a glob      *)
(* "*<suffix>" matches a path that ends with the suffix ("*" crosses "/"), *)
(* "[" does not compile.                                                   *)

SearchFilesArgs(path, regex, file_pattern) ==
    [path |-> path, regex |-> regex, file_pattern |-> file_pattern]

RegexNew(pattern) ==
    IF pattern \in {"(", "["} THEN Err("regex parse error: unclosed group")
    ELSE Ok(pattern)

RegexIsMatch(re, line) == IF re = ".*" THEN TRUE ELSE Contains(line, re)

GlobIsMatch(glob, path) ==
    IF Len(glob) > 0 /\ SubSeq(glob, 1, 1) = "*"
    THEN EndsWith(path, SubSeq(glob, 2, Len(glob)))
    ELSE path = glob

build_globset(pattern) ==
    IF ~IsSome(pattern) THEN Ok(None)
    ELSE IF Len(Trim(Unwrap(pattern))) = 0 THEN Ok(None)
    ELSE IF Unwrap(pattern) = "["
    THEN Err("Invalid glob pattern: unclosed character class")
    ELSE Ok(Some(Unwrap(pattern)))

\* path.file_name(), "" when there is none ("." has none)
FileName(comps) ==
    IF Len(comps) = 0 THEN ""
    ELSE IF comps[Len(comps)] \in {".", ".."} THEN ""
    ELSE comps[Len(comps)]

\* is_ignored_dir that knows the .git directory only
is_ignored_dir_git_only(comps) == FileName(comps) = ".git"

is_ignored_dir(comps) == FileName(comps) = ".git" \/ FileName(comps) = "target"

IsPrefix(p, q) == Len(p) <= Len(q) /\ SubSeq(q, 1, Len(p)) = p

\* WalkDir::new(root).follow_links(false) under filter_entry: the entries at
\* or below the root that pass the filter and whose ancestors from the root
\* down all pass it, in walk order.
Walk(d, root) ==
    LET rootComps == d[CHOOSE i \in Lookup(d, root) : TRUE].comps
        kept(i) ==
            /\ IsPrefix(rootComps, d[i].comps)
            /\ \A n \in Len(rootComps)..Len(d[i].comps) :
                   ~is_ignored_dir(SubSeq(d[i].comps, 1, n))
    IN  SelectSeq([i \in 1..Len(d) |-> [e |-> d[i], keep |-> kept(i)]],
                  LAMBDA x : x.keep)

SearchMatch(path, line_number, context) ==
    [path |-> path, line_number |-> line_number, context |-> context]

\* lines 357-372: the context block of the match at 0-based index
MatchContext(lines, index) ==
    LET line_number == index + 1
        before == SaturatingSub(index, SEARCH_CONTEXT_LINES)
        after == Min(index + SEARCH_CONTEXT_LINES + 1, Len(lines))
    IN  [k \in 1..(after - before) |->
            LET current_line == before + (k - 1) + 1 IN
            (IF current_line = line_number THEN ">" ELSE " ")
            \o " " \o NumberedLine(current_line, At(lines, before + (k - 1)))]

\* line 353 letting one match more through
OverMatchLimitLate(total_matches) == total_matches > MAX_SEARCH_MATCHES + 1

\* line 353
OverMatchLimit(total_matches) == total_matches > MAX_SEARCH_MATCHES

\* line 381
AtMatchLimit(total_matches) == total_matches >= MAX_SEARCH_MATCHES

RECURSIVE ScanLines(_, _, _, _, _)
\* the for loop over the lines of one file, lines 347-379, from 0-based
\* index on; st is [results, total_matches]
ScanLines(path, lines, re, index, st) ==
    IF index >= Len(lines) THEN st
    ELSE IF ~RegexIsMatch(re, At(lines, index))
    THEN ScanLines(path, lines, re, index + 1, st)
    ELSE IF OverMatchLimit(st.total_matches + 1)
    THEN [st EXCEPT !.total_matches = st.total_matches + 1]
    ELSE ScanLines(path, lines, re, index + 1,
            [results |-> Append(st.results,
                            SearchMatch(path, index + 1, MatchContext(lines, index))),
             total_matches |-> st.total_matches + 1])

RECURSIVE ScanEntries(_, _, _, _, _)
\* the for loop over the walk, lines 325-384, from position k of the walk
ScanEntries(walk, re, globset, k, st) ==
    IF k > Len(walk) THEN st
    ELSE LET e == walk[k].e IN
         IF e.kind # "file" THEN ScanEntries(walk, re, globset, k + 1, st)
         ELSE IF IsSome(globset) /\ ~GlobIsMatch(Unwrap(globset), PathStr(e))
         THEN ScanEntries(walk, re, globset, k + 1, st)
         ELSE IF ~e.readable THEN ScanEntries(walk, re, globset, k + 1, st)
         ELSE LET st2 == ScanLines(PathStr(e), e.lines, re, 0, st) IN
              IF AtMatchLimit(st2.total_matches) THEN st2
              ELSE ScanEntries(walk, re, globset, k + 1, st2)

RECURSIVE FormatMatches(_)
FormatMatches(results) ==
    IF Len(results) = 0 THEN <<>>
    ELSE <<"", Head(results).path \o ":" \o ToString(Head(results).line_number)>>
         \o Head(results).context \o FormatMatches(Tail(results))

format_search_results(root, regex, file_pattern, results, total_matches) ==
    LET head == <<"SEARCH ROOT: " \o root, "REGEX: " \o regex>>
                \o (IF IsSome(file_pattern)
                    THEN <<"FILE_PATTERN: " \o Unwrap(file_pattern)>> ELSE <<>>)
    IN  IF Len(results) = 0 THEN head \o <<"No matches found.">>
        ELSE head \o FormatMatches(results)
             \o (IF total_matches >= MAX_SEARCH_MATCHES
                 THEN <<"", "Matches truncated at limit.">> ELSE <<>>)

\* lines 321-384: [results, total_matches] of the scan
SearchScan(d, args) ==
    ScanEntries(Walk(d, args.path), RegexNew(args.regex).value,
                build_globset(args.file_pattern).value, 1,
                [results |-> <<>>, total_matches |-> 0])

search_files(d, args) ==
    IF Lookup(d, args.path) = {}
    THEN format_tool_error("search_files",
            "Search path does not exist: " \o args.path)
    ELSE IF d[CHOOSE i \in Lookup(d, args.path) : TRUE].kind # "dir"
    THEN format_tool_error("search_files",
            "Search path is not a directory: " \o args.path)
    ELSE IF ~RegexNew(args.regex).ok
    THEN format_tool_error("search_files",
            "Invalid regex: " \o RegexNew(args.regex).value)
    ELSE IF ~build_globset(args.file_pattern).ok
    THEN format_tool_error("search_files", build_globset(args.file_pattern).value)
    ELSE LET st == SearchScan(d, args) IN
         format_search_results(args.path, args.regex, args.file_pattern,
                               st.results, st.total_matches)

---------------------------------------------------------------------------
(* The dispatcher.  serde_json::from_str is modelled on the argument       *)
(* strings the model's API sends: each string is listed with what it       *)
(* decodes to as ReadFileArgs and as SearchFilesArgs (an unknown field is  *)
(* ignored, a missing required field or a malformed text is an error;      *)
(* the backquotes of serde's diagnostics are written as apostrophes).      *)

ArgsReadWhole == "{\"path\":\"repo/a.rs\"}"
ArgsReadSlice == "{\"path\":\"repo/a.rs\",\"offset\":2,\"limit\":1}"
ArgsReadIndent ==
    "{\"path\":\"repo/a.rs\",\"mode\":\"indentation\",\"indentation\":{\"anchor_line\":2,\"include_header\":false}}"
ArgsReadIndentWide ==
    "{\"path\":\"repo/a.rs\",\"mode\":\"indentation\",\"indentation\":{\"anchor_line\":3,\"max_levels\":1,\"include_siblings\":true,\"max_lines\":3}}"
ArgsReadMissingFile == "{\"path\":\"repo/missing.rs\"}"
ArgsReadBadOffset == "{\"path\":\"repo/a.rs\",\"offset\":-1}"
ArgsEmptyObject == "{}"
ArgsNotJson == "not json"
ArgsSearch == "{\"path\":\"repo\",\"regex\":\"fn\"}"
ArgsSearchGlob == "{\"path\":\"repo\",\"regex\":\"fn\",\"file_pattern\":\"*.rs\"}"
ArgsSearchBadRegex == "{\"path\":\"repo\",\"regex\":\"(\"}"
ArgsSearchNoRoot == "{\"path\":\"nowhere\",\"regex\":\"fn\"}"
ArgsSearchFileRoot == "{\"path\":\"repo/a.rs\",\"regex\":\"fn\"}"

ArgumentStrings ==
    {ArgsReadWhole, ArgsReadSlice, ArgsReadIndent, ArgsReadIndentWide,
     ArgsReadMissingFile,
     ArgsReadBadOffset, ArgsEmptyObject, ArgsNotJson, ArgsSearch, ArgsSearchGlob,
     ArgsSearchBadRegex, ArgsSearchNoRoot, ArgsSearchFileRoot}

\* serde_json::from_str::<ReadFileArgs>(arguments)
DecodeReadFileArgs(arguments) ==
    CASE arguments = ArgsReadWhole ->
            Ok(ReadFileArgs("repo/a.rs", None, None, None, None))
      [] arguments = ArgsReadSlice ->
            Ok(ReadFileArgs("repo/a.rs", None, Some(2), Some(1), None))
      [] arguments = ArgsReadIndent ->
            Ok(ReadFileArgs("repo/a.rs", Some("indentation"), None, None,
                    Some(IndentationOptions(Some(2), None, None, Some(FALSE), None))))
      [] arguments = ArgsReadIndentWide ->
            Ok(ReadFileArgs("repo/a.rs", Some("indentation"), None, None,
                    Some(IndentationOptions(Some(3), Some(1), Some(TRUE), None,
                                            Some(3)))))
      [] arguments = ArgsReadMissingFile ->
            Ok(ReadFileArgs("repo/missing.rs", None, None, None, None))
      [] arguments = ArgsReadBadOffset ->
            Err("invalid value: integer '-1', expected usize at line 1 column 31")
      [] arguments = ArgsEmptyObject ->
            Err("missing field 'path' at line 1 column 2")
      [] arguments \in {ArgsSearch, ArgsSearchGlob, ArgsSearchBadRegex} ->
            Ok(ReadFileArgs("repo", None, None, None, None))
      [] arguments = ArgsSearchNoRoot ->
            Ok(ReadFileArgs("nowhere", None, None, None, None))
      [] arguments = ArgsSearchFileRoot ->
            Ok(ReadFileArgs("repo/a.rs", None, None, None, None))
      [] OTHER -> Err("expected ident at line 1 column 2")

\* serde_json::from_str::<SearchFilesArgs>(arguments)
DecodeSearchFilesArgs(arguments) ==
    CASE arguments = ArgsSearch -> Ok(SearchFilesArgs("repo", "fn", None))
      [] arguments = ArgsSearchGlob ->
            Ok(SearchFilesArgs("repo", "fn", Some("*.rs")))
      [] arguments = ArgsSearchBadRegex -> Ok(SearchFilesArgs("repo", "(", None))
      [] arguments = ArgsSearchNoRoot -> Ok(SearchFilesArgs("nowhere", "fn", None))
      [] arguments = ArgsSearchFileRoot ->
            Ok(SearchFilesArgs("repo/a.rs", "fn", None))
      [] arguments \in {ArgsReadWhole, ArgsReadMissingFile} ->
            Err("missing field 'regex' at line 1 column " \o ToString(Len(arguments)))
      [] arguments \in {ArgsReadSlice, ArgsReadIndent, ArgsReadIndentWide,
                        ArgsReadBadOffset} ->
            Err("missing field 'regex' at line 1 column " \o ToString(Len(arguments)))
      [] arguments = ArgsEmptyObject ->
            Err("missing field 'path' at line 1 column 2")
      [] OTHER -> Err("expected ident at line 1 column 2")

\* the match arms of handle_tool_call on a decoded argument
ReadFileArm(d, decoded) ==
    IF decoded.ok THEN read_file(d, decoded.value)
    ELSE format_tool_error("read_file", "Invalid arguments: " \o decoded.value)

SearchFilesArm(d, decoded) ==
    IF decoded.ok THEN search_files(d, decoded.value)
    ELSE format_tool_error("search_files", "Invalid arguments: " \o decoded.value)

\* handle_tool_call whose fallback arm aborts instead of answering
handle_tool_call_unknown_aborts(d, name, arguments) ==
    CASE name = "read_file" -> ReadFileArm(d, DecodeReadFileArgs(arguments))
      [] name = "search_files" -> SearchFilesArm(d, DecodeSearchFilesArgs(arguments))
      [] OTHER -> Panic

handle_tool_call(d, name, arguments) ==
    CASE name = "read_file" -> ReadFileArm(d, DecodeReadFileArgs(arguments))
      [] name = "search_files" -> SearchFilesArm(d, DecodeSearchFilesArgs(arguments))
      [] OTHER -> format_tool_error(name, "Unknown tool name")

summarize_tool_call(name, arguments) ==
    CASE name = "read_file" ->
            LET a == DecodeReadFileArgs(arguments) IN
            IF ~a.ok THEN "read_file (invalid args)"
            ELSE IF a.value.mode = Some("indentation")
            THEN "read_file " \o a.value.path \o " (indentation anchor_line="
                 \o ToString(UnwrapOr(IndentOpt(a.value, "anchor_line"), 1)) \o ")"
            ELSE LET offset == Max(UnwrapOr(a.value.offset, 1), 1)
                     limit == Min(UnwrapOr(a.value.limit, DEFAULT_READ_LIMIT),
                                  MAX_READ_LIMIT)
                     end == offset + SaturatingSub(limit, 1)
                 IN  "read_file " \o a.value.path \o ":" \o ToString(offset)
                     \o "-" \o ToString(end)
      [] name = "search_files" ->
            LET a == DecodeSearchFilesArgs(arguments) IN
            IF ~a.ok THEN "search_files (invalid args)"
            ELSE IF IsSome(a.value.file_pattern)
                    /\ Len(Trim(UnwrapOr(a.value.file_pattern, ""))) > 0
            THEN "search_files " \o a.value.path \o " regex=" \o a.value.regex
                 \o " files=" \o Unwrap(a.value.file_pattern)
            ELSE "search_files " \o a.value.path \o " regex=" \o a.value.regex
      [] OTHER -> name \o " (unknown tool)"

---------------------------------------------------------------------------
(* The chat API.  A raw response is what the exchange produced: kind is    *)
(* "transport" (send or body read failed), "http_error" (a non-success     *)
(* status), "malformed" (a body that is not a ChatResponse),               *)
(* "error_payload" (a body with an "error" member) or "choices" (a body    *)
(* with the choices listed).                                               *)

Message(role, content, tool_calls, tool_call_id) ==
    [role |-> role, content |-> content, tool_calls |-> tool_calls,
     tool_call_id |-> tool_call_id]

ToolCall(id, name, arguments) ==
    [id |-> id, tool_type |-> "function",
     function |-> [name |-> name, arguments |-> arguments]]

Choice(finish_reason, message) ==
    [finish_reason |-> finish_reason, message |-> message]

Raw(kind, choices) == [kind |-> kind, choices |-> choices]

\* OpenAIClient::chat: Ok(choices) or the error of the exchange
chat(raw) ==
    CASE raw.kind = "transport" -> Err("error sending request")
      [] raw.kind = "http_error" -> Err("OpenAI API error (500)")
      [] raw.kind = "malformed" -> Err("Failed to parse response body")
      [] raw.kind = "error_payload" -> Err("OpenAI API error")
      [] OTHER ->
            IF Len(raw.choices) > 0
               /\ (\/ raw.choices[1].finish_reason = "error"
                   \/ (~IsSome(raw.choices[1].message.content)
                       /\ ~IsSome(raw.choices[1].message.tool_calls)))
            THEN Err("OpenAI API error: finish_reason="
                     \o raw.choices[1].finish_reason)
            ELSE IF Len(raw.choices) = 0
            THEN Err("OpenAI API error: empty choices array")
            ELSE Ok(raw.choices)

---------------------------------------------------------------------------
(* run_review, from the construction of the transcript (line 111) on.      *)

SystemPrompt == "<system prompt>"
UserPrompt == "<user prompt>"
NoContent == "<no content>"
LimitError == "Tool call limit exceeded (max " \o ToString(MAX_TOOL_CALLS) \o ")."
EmptyError == "Model returned an empty response with no tool calls."

RECURSIVE Text(_)
\* the String whose lines are given, each followed by "\n"
Text(lines) ==
    IF Len(lines) = 0 THEN "" ELSE Head(lines) \o "\n" \o Text(Tail(lines))

\* the files the review runs on
RepoDisk ==
    <<Entry(<<"repo">>, "dir", TRUE, <<>>),
      Entry(<<"repo", ".git">>, "dir", TRUE, <<>>),
      Entry(<<"repo", ".git", "hook.rs">>, "file", TRUE, <<"fn hook() {}">>),
      Entry(<<"repo", "a.rs">>, "file", TRUE,
            <<"fn outer() {", "    let x = 1;", "    println!();", "}">>),
      Entry(<<"repo", "blob.rs">>, "file", FALSE, <<>>),
      Entry(<<"repo", "notes.txt">>, "file", TRUE, <<"see fn outer">>),
      Entry(<<"repo", "src">>, "dir", TRUE, <<>>),
      Entry(<<"repo", "src", "lib.rs">>, "file", TRUE,
            <<"", "pub fn lib() {}", "// end">>),
      Entry(<<"repo", "target">>, "dir", TRUE, <<>>),
      Entry(<<"repo", "target", "gen.rs">>, "file", TRUE, <<"fn gen() {}">>)>>

LoopInit ==
    /\ messages = <<Message("system", Some(SystemPrompt), None, None),
                    Message("user", Some(UserPrompt), None, None)>>
    /\ tool_calls_used = 0
    /\ pc = "AwaitingResponse"
    /\ pending = <<>>
    /\ api_requests = 0
    /\ stdout = <<>>
    /\ error = None

NoCall == [fn |-> "none"]

\* line 153 with a wrong comparison: the ceiling is hit one call early
OverLimitOffByOne(used) == used >= MAX_TOOL_CALLS

\* line 153 letting one call more through
OverLimitLate(used) == used > MAX_TOOL_CALLS + 1

\* line 153
OverLimit(used) == used > MAX_TOOL_CALLS

\* line 179 without the trim
IsEmptyResponseUntrimmed(content) == Len(content) = 0 \/ content = NoContent

\* line 179
IsEmptyResponse(content) == Len(Trim(content)) = 0 \/ content = NoContent

\* lines 139-144 asking again after a failed exchange
ApiErrorRetries(raws) ==
    \E raw \in raws :
        /\ pc = "AwaitingResponse"
        /\ api_requests < MaxRequests
        /\ ~chat(raw).ok
        /\ api_requests' = api_requests + 1
        /\ UNCHANGED <<messages, tool_calls_used, pc, pending, error, stdout, disk, call, result>>

\* lines 139-144 failing: "?" returns the error
ApiError(raws) ==
    \E raw \in raws :
        /\ pc = "AwaitingResponse"
        /\ api_requests < MaxRequests
        /\ ~chat(raw).ok
        /\ api_requests' = api_requests + 1
        /\ pc' = "Failed"
        /\ error' = Some(chat(raw).value)
        /\ UNCHANGED <<messages, tool_calls_used, pending, stdout, disk, call, result>>

\* lines 139-150 with tool_calls = Some(..): the assistant message is pushed
\* and the for loop is entered; over no calls it ends at once (continue)
AssistantToolCalls(raws) ==
    \E raw \in raws :
        /\ pc = "AwaitingResponse"
        /\ api_requests < MaxRequests
        /\ chat(raw).ok
        /\ IsSome(chat(raw).value[1].message.tool_calls)
        /\ api_requests' = api_requests + 1
        /\ messages' = Append(messages, chat(raw).value[1].message)
        /\ pending' = Unwrap(chat(raw).value[1].message.tool_calls)
        /\ pc' = IF Len(pending') = 0 THEN "AwaitingResponse"
                 ELSE "ProcessingToolCalls"
        /\ UNCHANGED <<tool_calls_used, stdout, error, disk, call, result>>

\* lines 139-148 and 178-185 with tool_calls = None
AssistantAnswer(raws) ==
    \E raw \in raws :
        /\ pc = "AwaitingResponse"
        /\ api_requests < MaxRequests
        /\ chat(raw).ok
        /\ ~IsSome(chat(raw).value[1].message.tool_calls)
        /\ api_requests' = api_requests + 1
        /\ messages' = Append(messages, chat(raw).value[1].message)
        /\ LET content == UnwrapOr(chat(raw).value[1].message.content, NoContent)
           IN  IF IsEmptyResponse(content)
               THEN /\ pc' = "Failed"
                    /\ error' = Some(EmptyError)
                    /\ stdout' = stdout
               ELSE /\ pc' = "Done"
                    /\ error' = error
                    /\ stdout' = Append(stdout, Trim(content))
        /\ UNCHANGED <<tool_calls_used, pending, disk, call, result>>

\* lines 152-157: the counter passes the ceiling
ToolCallLimitExceeded ==
    /\ pc = "ProcessingToolCalls"
    /\ OverLimit(tool_calls_used + 1)
    /\ tool_calls_used' = tool_calls_used + 1
    /\ pc' = "Failed"
    /\ error' = Some(LimitError)
    /\ UNCHANGED <<messages, pending, api_requests, stdout, disk, call, result>>

\* lines 168-173 tagging the reply with the tool's name instead of the id
ToolReplyByName(c, tool_output) ==
    Message("tool", Some(Text(tool_output)), None, Some(c.function.name))

\* the tool message of lines 168-173 for a call and the handler's output
ToolReply(c, tool_output) ==
    Message("tool", Some(Text(tool_output)), None, Some(c.id))

\* lines 165-175 putting the reply in front of the reply made before it
PushToolReplyInFront(c, tool_output) ==
    IF tool_output = Panic
    THEN /\ pc' = "Panicked"
         /\ UNCHANGED <<messages, pending>>
    ELSE /\ messages' =
                IF messages[Len(messages)].role = "tool"
                THEN SubSeq(messages, 1, Len(messages) - 1)
                     \o <<ToolReply(c, tool_output), messages[Len(messages)]>>
                ELSE Append(messages, ToolReply(c, tool_output))
         /\ pending' = Tail(pending)
         /\ pc' = IF Len(Tail(pending)) = 0 THEN "AwaitingResponse"
                  ELSE "ProcessingToolCalls"

\* lines 165-175 returning the handler's error as the run's error
PushToolReplyOrFail(c, tool_output) ==
    IF tool_output = Panic
    THEN /\ pc' = "Panicked"
         /\ UNCHANGED <<messages, pending>>
    ELSE IF SubSeq(Head(tool_output), 1, 5) = "ERROR"
    THEN /\ pc' = "Failed"
         /\ UNCHANGED <<messages, pending>>
    ELSE /\ messages' = Append(messages, ToolReply(c, tool_output))
         /\ pending' = Tail(pending)
         /\ pc' = IF Len(Tail(pending)) = 0 THEN "AwaitingResponse"
                  ELSE "ProcessingToolCalls"

\* lines 165-175: the handler's output becomes a tool message; after the
\* last call of the batch the loop continues with the next request
PushToolReply(c, tool_output) ==
    IF tool_output = Panic
    THEN /\ pc' = "Panicked"
         /\ UNCHANGED <<messages, pending>>
    ELSE /\ messages' = Append(messages, ToolReply(c, tool_output))
         /\ pending' = Tail(pending)
         /\ pc' = IF Len(Tail(pending)) = 0 THEN "AwaitingResponse"
                  ELSE "ProcessingToolCalls"

\* lines 152-174: one iteration of the for loop within the ceiling
ExecuteToolCall ==
    /\ pc = "ProcessingToolCalls"
    /\ ~OverLimit(tool_calls_used + 1)
    /\ tool_calls_used' = tool_calls_used + 1
    /\ stdout' = Append(stdout, "Tool call: "
            \o summarize_tool_call(Head(pending).function.name,
                                   Head(pending).function.arguments))
    /\ PushToolReply(Head(pending),
            handle_tool_call(disk, Head(pending).function.name,
                             Head(pending).function.arguments))
    /\ UNCHANGED <<api_requests, error, disk, call, result>>

---------------------------------------------------------------------------
(* What the API may answer.  The ids are the API's: one per call.          *)

CallId(k) == "call_" \o ToString(api_requests + 1) \o "_" \o ToString(k)

ToolRequest(name, arguments) == [name |-> name, arguments |-> arguments]

Batch(n, req) == [k \in 1..n |-> ToolCall(CallId(k), req.name, req.arguments)]

AnswerContents ==
    {"LGTM", "  LGTM\n", "", " \n", NoContent, " " \o NoContent \o "\n"}

Answer(content) ==
    Raw("choices", <<Choice("stop", Message("assistant", Some(content), None, None))>>)

ToolCallResponse(content, calls) ==
    Raw("choices",
        <<Choice("tool_calls", Message("assistant", content, Some(calls), None))>>)

FailedExchanges ==
    {Raw("transport", <<>>), Raw("http_error", <<>>), Raw("malformed", <<>>),
     Raw("error_payload", <<>>), Raw("choices", <<>>),
     Raw("choices", <<Choice("error", Message("assistant", Some("LGTM"), None, None))>>),
     Raw("choices", <<Choice("stop", Message("assistant", None, None, None))>>)}

\* every kind of response: failures, answers (one with a second choice,
\* which is ignored), and messages with a list of 0..MaxBatch tool calls
AnyResponse ==
    IF api_requests >= MaxTurns THEN {}
    ELSE FailedExchanges
         \cup {Answer(c) : c \in AnswerContents}
         \cup {Raw("choices",
                   <<Choice("stop", Message("assistant", Some("LGTM"), None, None)),
                     Choice("tool_calls", Message("assistant", None,
                         Some(Batch(1, ToolRequest("read_file", ArgsReadSlice))), None))>>)}
         \cup {ToolCallResponse(None, Batch(n, ToolRequest("read_file", ArgsReadSlice))) :
                   n \in 1..MaxBatch}
         \cup {ToolCallResponse(Some("LGTM"), <<>>)}

\* the scripted stub: responses with exactly one tool call, then an answer
StubToolRequests ==
    {ToolRequest("read_file", ArgsReadSlice), ToolRequest("list_dir", ArgsEmptyObject)}

StubResponse ==
    {ToolCallResponse(None, Batch(1, req)) : req \in StubToolRequests}
    \cup {Answer(c) : c \in AnswerContents}

\* an API that never fails: an answer, or a list of zero or more tool calls
SuccessfulResponse ==
    {Answer("LGTM")}
    \cup {ToolCallResponse(None, Batch(n, ToolRequest("read_file", ArgsReadSlice))) :
              n \in 0..MaxBatch}

LoopStart ==
    /\ LoopInit
    /\ disk = RepoDisk
    /\ call = NoCall
    /\ result = <<>>

Init == LoopStart

Next ==
    \/ ApiError(AnyResponse)
    \/ AssistantToolCalls(AnyResponse)
    \/ AssistantAnswer(AnyResponse)
    \/ ExecuteToolCall
    \/ ToolCallLimitExceeded

Spec == Init /\ [][Next]_vars

NextStub ==
    \/ AssistantToolCalls(StubResponse)
    \/ AssistantAnswer(StubResponse)
    \/ ExecuteToolCall
    \/ ToolCallLimitExceeded

SpecStub == Init /\ [][NextStub]_vars

NextSupply ==
    \/ AssistantToolCalls(SuccessfulResponse)
    \/ AssistantAnswer(SuccessfulResponse)
    \/ ExecuteToolCall
    \/ ToolCallLimitExceeded

SpecSupply == Init /\ [][NextSupply]_vars

---------------------------------------------------------------------------
(* Direct calls of read_file in slice mode, as the unit tests make them:   *)
(* one file on disk, every offset and limit of the bounds.  The function   *)
(* keeps no state between calls, so a behaviour is one call.               *)

RECURSIVE SeqsUpTo(_, _)
\* the sequences over S of length at most n
SeqsUpTo(S, n) ==
    IF n = 0 THEN {<<>>}
    ELSE SeqsUpTo(S, n - 1)
         \cup {Append(q, x) : q \in {r \in SeqsUpTo(S, n - 1) : Len(r) = n - 1}, x \in S}

SamplePath == "sample.txt"

SliceLineSet == {"first", "second", "third"}

\* a file with one line more than MAX_READ_LIMIT
LongFile == [i \in 1..(MAX_READ_LIMIT + 1) |-> "x"]

SliceDisks ==
    {<<Entry(<<SamplePath>>, "file", TRUE, f)>> :
        f \in SeqsUpTo(SliceLineSet, MaxFileLines) \cup {LongFile}}
    \cup {<<Entry(<<SamplePath>>, "file", FALSE, <<>>)>>}

OffsetArgs ==
    {None} \cup {Some(n) : n \in 0..MaxOffset} \cup {Some(MAX_READ_LIMIT + 2)}

LimitArgs ==
    {None} \cup {Some(n) : n \in 0..MaxLimit}
    \cup {Some(MAX_READ_LIMIT), Some(MAX_READ_LIMIT + 1)}

InitSlice ==
    /\ LoopInit
    /\ disk \in SliceDisks
    /\ call = NoCall
    /\ result = <<>>

ReadSlice ==
    \E offset \in OffsetArgs, limit \in LimitArgs, mode \in {None, Some("slice")} :
        /\ call = NoCall
        /\ call' = [fn |-> "read_file",
                    args |-> ReadFileArgs(SamplePath, mode, offset, limit, None)]
        /\ result' = read_file(disk, ReadFileArgs(SamplePath, mode, offset, limit, None))
        /\ UNCHANGED <<loopVars, disk>>

NextSlice == ReadSlice

SpecSlice == InitSlice /\ [][NextSlice]_vars

---------------------------------------------------------------------------
(* Direct calls of read_file in indentation mode, one call a behaviour.    *)

IndentLineSet == {"a", " b", "  c", ""}

\* the file of the specification's example
ExampleFile == <<"fn outer() {", "    let x = 1;", "    println!();", "}">>

\* the file of the test read_file_indentation_mode_extracts_block
TestFile == <<"fn outer() {", "    let x = 1;", "    println!(\"hi\");", "}">>

\* a file indented with tabs
TabFile == <<"if a:", "\tb", "\t\tc", "    d">>

\* a file with a header: an import, a blank line, then a function
HeaderFile == <<"use x;", "", "fn f() {", "    a;", "    b;", "}">>

\* a module of two functions, the second one open
NestedFile == <<"mod m {", "  fn f() {}", "  fn g() {", "    x;">>

IndentDisks ==
    {<<Entry(<<SamplePath>>, "file", TRUE, f)>> :
        f \in SeqsUpTo(IndentLineSet, MaxFileLines)
              \cup {ExampleFile, TestFile, TabFile, HeaderFile, NestedFile}}

FlagArgs == {Some(TRUE), Some(FALSE)}

\* no options at all, no option set, the anchor alone, and every setting of
\* the options (max_levels and max_lines also left out)
IndentationArgs ==
    {None, Some(IndentationOptions(None, None, None, None, None))}
    \cup {Some(IndentationOptions(Some(n), None, None, None, None)) : n \in 1..MaxOffset}
    \cup {Some(IndentationOptions(anchor, levels, siblings, header, lines)) :
            anchor \in {Some(n) : n \in 1..MaxOffset},
            levels \in {None} \cup {Some(n) : n \in 0..MaxLevels},
            siblings \in FlagArgs,
            header \in FlagArgs,
            lines \in {None} \cup {Some(n) : n \in 0..MaxLines}}

InitIndent ==
    /\ LoopInit
    /\ disk \in IndentDisks
    /\ call = NoCall
    /\ result = <<>>

ReadIndentation ==
    \E indentation \in IndentationArgs :
        /\ call = NoCall
        /\ call' = [fn |-> "read_file",
                    args |-> ReadFileArgs(SamplePath, Some("indentation"), None, None,
                                          indentation)]
        /\ result' = read_file(disk,
                        ReadFileArgs(SamplePath, Some("indentation"), None, None,
                                     indentation))
        /\ UNCHANGED <<loopVars, disk>>

NextIndent == ReadIndentation

SpecIndent == InitIndent /\ [][NextIndent]_vars

---------------------------------------------------------------------------
(* Direct calls of the dispatcher, one call a behaviour.                   *)

ToolNames == {"read_file", "search_files", "list_dir", "", "Read_File"}

\* the repository, an empty working directory, and the repository with
\* every file unreadable
ToolDisks ==
    {RepoDisk, <<>>,
     [i \in 1..Len(RepoDisk) |-> [RepoDisk[i] EXCEPT !.readable = (@ /\ RepoDisk[i].kind = "dir")]]}

InitTool ==
    /\ LoopInit
    /\ disk \in ToolDisks
    /\ call = NoCall
    /\ result = <<>>

CallTool ==
    \E name \in ToolNames, arguments \in ArgumentStrings :
        /\ call = NoCall
        /\ call' = [fn |-> "handle_tool_call", name |-> name, arguments |-> arguments]
        /\ result' = handle_tool_call(disk, name, arguments)
        /\ UNCHANGED <<loopVars, disk>>

NextTool == CallTool

SpecTool == InitTool /\ [][NextTool]_vars

---------------------------------------------------------------------------
(* Direct calls of search_files, one call a behaviour, the scan of lines   *)
(* 321-384 taken one directory entry and one line at a time.               *)

\* a tree with a regular file named target and a .git directory further down
TargetFileDisk ==
    <<Entry(<<"proj">>, "dir", TRUE, <<>>),
      Entry(<<"proj", "main.rs">>, "file", TRUE, <<"fn main() {}", "// fn">>),
      Entry(<<"proj", "sub">>, "dir", TRUE, <<>>),
      Entry(<<"proj", "sub", ".git">>, "dir", TRUE, <<>>),
      Entry(<<"proj", "sub", ".git", "config">>, "file", TRUE, <<"fn = 1">>),
      Entry(<<"proj", "sub", "x.rs">>, "file", TRUE, <<"mod x;", "fn x() {}">>),
      Entry(<<"proj", "target">>, "file", TRUE, <<"fn target() {}">>)>>

\* a tree where more lines match than are reported
ManyDisk ==
    <<Entry(<<"big">>, "dir", TRUE, <<>>),
      Entry(<<"big", "a.txt">>, "file", TRUE,
            [i \in 1..(MAX_SEARCH_MATCHES - 1) |-> "hit"]),
      Entry(<<"big", "b.txt">>, "file", TRUE, <<"hit", "miss", "hit">>),
      Entry(<<"big", "c.txt">>, "file", TRUE, <<"hit">>)>>

\* a tree where exactly as many lines match as are reported
ExactDisk ==
    <<Entry(<<"big">>, "dir", TRUE, <<>>),
      Entry(<<"big", "a.txt">>, "file", TRUE,
            [i \in 1..(MAX_SEARCH_MATCHES - 1) |-> "hit"]),
      Entry(<<"big", "b.txt">>, "file", TRUE, <<"hit", "miss">>),
      Entry(<<"big", "c.txt">>, "file", TRUE, <<"miss">>)>>

SearchDisks == {RepoDisk, TargetFileDisk, ManyDisk, ExactDisk}

SearchRoots ==
    {"repo", "repo/src", "repo/target", "repo/a.rs", "proj", "proj/sub", "big",
     "nowhere"}

SearchRegexes == {"fn", ".*", "hit", "("}

SearchGlobs == {None, Some("*.rs"), Some("*.txt"), Some(" "), Some("[")}

\* lines 297-319: the root is a directory and the patterns compile
ScanReady(d, args) ==
    /\ Lookup(d, args.path) # {}
    /\ d[CHOOSE i \in Lookup(d, args.path) : TRUE].kind = "dir"
    /\ RegexNew(args.regex).ok
    /\ build_globset(args.file_pattern).ok

\* a call of search_files and where its scan stands: position k of the
\* walk, 0-based line index of the entry under scan (-1: not opened)
Scan(args, phase, k, index, results, total_matches) ==
    [fn |-> "search_files", args |-> args, phase |-> phase, k |-> k,
     index |-> index, results |-> results, total_matches |-> total_matches]

Scanning == call.fn = "search_files" /\ call.phase = "scan"

ScanWalk == Walk(disk, call.args.path)

ScanEntry == ScanWalk[call.k].e

InitSearch ==
    /\ LoopInit
    /\ disk \in SearchDisks
    /\ call = NoCall
    /\ result = <<>>

\* lines 296-322
SearchStart ==
    \E path \in SearchRoots, regex \in SearchRegexes, glob \in SearchGlobs :
        /\ call = NoCall
        /\ IF ScanReady(disk, SearchFilesArgs(path, regex, glob))
           THEN /\ call' = Scan(SearchFilesArgs(path, regex, glob), "scan", 1, -1,
                                <<>>, 0)
                /\ result' = <<>>
           ELSE /\ call' = Scan(SearchFilesArgs(path, regex, glob), "done", 1, -1,
                                <<>>, 0)
                /\ result' = search_files(disk, SearchFilesArgs(path, regex, glob))
        /\ UNCHANGED <<loopVars, disk>>

\* lines 331-344: the entry is passed over or opened
Opens(e, globset) ==
    /\ e.kind = "file"
    /\ IsSome(globset) => GlobIsMatch(Unwrap(globset), PathStr(e))
    /\ e.readable

\* lines 325-346
VisitEntry ==
    /\ Scanning
    /\ call.index = -1
    /\ call.k <= Len(ScanWalk)
    /\ call' = IF Opens(ScanEntry, build_globset(call.args.file_pattern).value)
               THEN [call EXCEPT !.index = 0]
               ELSE [call EXCEPT !.k = @ + 1]
    /\ UNCHANGED <<loopVars, disk, result>>

\* lines 347-379: one line of the opened file
ScanLine ==
    /\ Scanning
    /\ call.index >= 0
    /\ call.index < Len(ScanEntry.lines)
    /\ call' =
         IF ~RegexIsMatch(RegexNew(call.args.regex).value,
                          At(ScanEntry.lines, call.index))
         THEN [call EXCEPT !.index = @ + 1]
         ELSE IF OverMatchLimit(call.total_matches + 1)
         THEN [call EXCEPT !.total_matches = @ + 1,
                           !.index = Len(ScanEntry.lines)]
         ELSE [call EXCEPT !.total_matches = @ + 1,
                           !.index = @ + 1,
                           !.results = Append(@,
                                SearchMatch(PathStr(ScanEntry), call.index + 1,
                                    MatchContext(ScanEntry.lines, call.index)))]
    /\ UNCHANGED <<loopVars, disk, result>>

\* lines 381-383: after the lines of a file
LeaveFile ==
    /\ Scanning
    /\ call.index >= 0
    /\ call.index >= Len(ScanEntry.lines)
    /\ call' = IF AtMatchLimit(call.total_matches)
               THEN [call EXCEPT !.k = Len(ScanWalk) + 1, !.index = -1]
               ELSE [call EXCEPT !.k = @ + 1, !.index = -1]
    /\ UNCHANGED <<loopVars, disk, result>>

\* lines 386-392
FormatResults ==
    /\ Scanning
    /\ call.index = -1
    /\ call.k > Len(ScanWalk)
    /\ call' = [call EXCEPT !.phase = "done"]
    /\ result' = format_search_results(call.args.path, call.args.regex,
                    call.args.file_pattern, call.results, call.total_matches)
    /\ UNCHANGED <<loopVars, disk>>

NextSearch ==
    \/ SearchStart
    \/ VisitEntry
    \/ ScanLine
    \/ LeaveFile
    \/ FormatResults

SpecSearch == InitSearch /\ [][NextSearch]_vars

\* the scan taken step by step ends with the output of search_files
ScanAgrees ==
    (call.fn = "search_files" /\ call.phase = "done") =>
        result = search_files(disk, call.args)

---------------------------------------------------------------------------
(* The transcript and the run's outcome, as the claims speak of them.      *)

Roles == [i \in 1..Len(messages) |-> messages[i].role]

\* tool executions: each appended one tool message
Executed == Cardinality({i \in 1..Len(messages) : messages[i].role = "tool"})

\* responses that carried a list of tool calls
ToolCallResponses ==
    Cardinality({i \in 1..Len(messages) :
                    messages[i].role = "assistant" /\ IsSome(messages[i].tool_calls)})

LastMessage == messages[Len(messages)]

\* the last response carried no list of tool calls
AnswerReceived ==
    LastMessage.role = "assistant" /\ ~IsSome(LastMessage.tool_calls)

FinalContent == UnwrapOr(LastMessage.content, NoContent)

\* stdout holds the tool-call summaries and then the answer
AnswerPrinted(text) ==
    /\ Len(stdout) = Executed + 1
    /\ stdout[Len(stdout)] = text

NoAnswerPrinted == Len(stdout) = Executed

---------------------------------------------------------------------------
(* C1, as stated: after N responses of one tool call each and a            *)
(* content-only response whose content is not empty, the run ends Done     *)
(* with N tool executions and the trimmed content printed iff N <= 8; for  *)
(* N > 8 it ends Failed with the limit error after exactly 8 executions.   *)
C1_StubRunAsStated ==
    /\ (AnswerReceived /\ FinalContent # "") =>
           /\ pc = "Done"
           /\ ToolCallResponses <= MAX_TOOL_CALLS
           /\ Executed = ToolCallResponses
           /\ AnswerPrinted(Trim(FinalContent))
    /\ pc = "Done" => ToolCallResponses <= MAX_TOOL_CALLS
    /\ error = Some(LimitError) => ToolCallResponses > MAX_TOOL_CALLS
    /\ pc = "AwaitingResponse" => Executed = ToolCallResponses
    /\ (ToolCallResponses > MAX_TOOL_CALLS /\ pc # "ProcessingToolCalls") =>
           /\ pc = "Failed"
           /\ error = Some(LimitError)
           /\ Executed = MAX_TOOL_CALLS

(* C1, amended: the same, for a final content that is not empty after      *)
(* trimming and is not the placeholder "<no content>".                     *)
C1_StubRun ==
    /\ (AnswerReceived /\ Len(Trim(FinalContent)) > 0 /\ FinalContent # NoContent) =>
           /\ pc = "Done"
           /\ ToolCallResponses <= MAX_TOOL_CALLS
           /\ Executed = ToolCallResponses
           /\ AnswerPrinted(Trim(FinalContent))
    /\ pc = "Done" => ToolCallResponses <= MAX_TOOL_CALLS
    /\ error = Some(LimitError) => ToolCallResponses > MAX_TOOL_CALLS
    /\ pc = "AwaitingResponse" => Executed = ToolCallResponses
    /\ (ToolCallResponses > MAX_TOOL_CALLS /\ pc # "ProcessingToolCalls") =>
           /\ pc = "Failed"
           /\ error = Some(LimitError)
           /\ Executed = MAX_TOOL_CALLS

\* a run of 8 tool-call responses that ended Done with its answer trimmed
C1_Witness ==
    /\ pc = "Done"
    /\ ToolCallResponses = MAX_TOOL_CALLS
    /\ Executed = MAX_TOOL_CALLS
    /\ FinalContent # Trim(FinalContent)

---------------------------------------------------------------------------
(* C2: the transcript is system, user, then groups of an assistant message *)
(* followed by zero or more tool messages, and every tool message carries  *)
(* the id of one of the tool calls of the nearest assistant message before *)
(* it.                                                                     *)

NearestAssistant(i) ==
    CHOOSE j \in 1..(i - 1) :
        /\ messages[j].role = "assistant"
        /\ \A k \in (j + 1)..(i - 1) : messages[k].role # "assistant"

CallIds(m) ==
    IF IsSome(m.tool_calls)
    THEN {Unwrap(m.tool_calls)[k].id : k \in 1..Len(Unwrap(m.tool_calls))}
    ELSE {}

C2_TranscriptShape ==
    /\ Len(messages) >= 2
    /\ messages[1].role = "system"
    /\ messages[2].role = "user"
    /\ \A i \in 3..Len(messages) : messages[i].role \in {"assistant", "tool"}
    /\ Len(messages) >= 3 => messages[3].role = "assistant"
    /\ \A i \in 3..Len(messages) :
           messages[i].role = "tool" =>
               /\ IsSome(messages[i].tool_call_id)
               /\ Unwrap(messages[i].tool_call_id)
                      \in CallIds(messages[NearestAssistant(i)])

\* two batches answered, the later one of two calls
C2_Witness ==
    \E i \in 3..Len(messages) :
        /\ i + 2 <= Len(messages)
        /\ messages[i].role = "assistant"
        /\ messages[i + 1].role = "tool"
        /\ messages[i + 2].role = "tool"
        /\ \E j \in 3..(i - 1) : messages[j].role = "tool"

---------------------------------------------------------------------------
(* C3: the ceiling bounds the run.  A response that does not end the run   *)
(* has to use up at least one of the MAX_TOOL_CALLS calls, so a run issues *)
(* at most MAX_TOOL_CALLS + 1 requests before it is Done or Failed.        *)
C3_BoundedRequests == api_requests <= MAX_TOOL_CALLS + 1

---------------------------------------------------------------------------
---------------------------------------------------------------------------
(* read_file on the one file of the disk.                                  *)

FileReadable == disk[1].kind = "file" /\ disk[1].readable

FileLines == disk[1].lines

file_len == Len(FileLines)

\* the numbered lines of a file output: what follows its "FILE:" line,
\* nothing when that is the empty-range marker
NumberedLines(out) ==
    IF out = format_file_output(SamplePath, <<>>) THEN <<>> ELSE Tail(out)

IsFileOutput(out) == Len(out) >= 2 /\ out[1] = "FILE: " \o SamplePath

\* a slice read of the readable file with offset and limit given, both >= 1
SliceCall ==
    /\ call.fn = "read_file"
    /\ call.args.mode # Some("indentation")
    /\ FileReadable
    /\ IsSome(call.args.offset) /\ Unwrap(call.args.offset) >= 1
    /\ IsSome(call.args.limit) /\ Unwrap(call.args.limit) >= 1

ArgOffset == Unwrap(call.args.offset)
ArgLimit == Unwrap(call.args.limit)

---------------------------------------------------------------------------
(* C6, as stated: for offset >= 1 and limit >= 1 a slice read returns      *)
(* exactly min(limit, max(0, file_len - offset + 1)) numbered lines.       *)
C6_SliceCountAsStated ==
    SliceCall =>
        /\ IsFileOutput(result)
        /\ Len(NumberedLines(result))
               = Min(ArgLimit, Max(0, file_len - ArgOffset + 1))

(* C6, amended: the limit counts up to MAX_READ_LIMIT only; the read       *)
(* returns min(limit, 2000, max(0, file_len - offset + 1)) numbered lines. *)
C6_SliceCount ==
    SliceCall =>
        /\ IsFileOutput(result)
        /\ Len(NumberedLines(result))
               = Min(Min(ArgLimit, MAX_READ_LIMIT),
                     Max(0, file_len - ArgOffset + 1))

\* a limit above the cap on a file longer than the cap: 2000 lines come back
C6_Witness ==
    /\ SliceCall
    /\ ArgLimit > MAX_READ_LIMIT
    /\ file_len - ArgOffset + 1 > MAX_READ_LIMIT
    /\ Len(NumberedLines(result)) = MAX_READ_LIMIT

---------------------------------------------------------------------------
(* C7: a slice read of a readable file with an offset beyond the file's    *)
(* line count returns the file header and the "(no lines in range)"        *)
(* marker, never an ERROR text, whatever the limit.                        *)
C7_OffsetBeyondFile ==
    (/\ call.fn = "read_file"
     /\ call.args.mode # Some("indentation")
     /\ FileReadable
     /\ IsSome(call.args.offset)
     /\ Unwrap(call.args.offset) > file_len) =>
        result = <<"FILE: " \o SamplePath, "(no lines in range)">>

\* an offset past the end of a file that has lines, with a limit given
C7_Witness ==
    /\ call.fn = "read_file"
    /\ FileReadable
    /\ file_len >= 1
    /\ IsSome(call.args.offset)
    /\ Unwrap(call.args.offset) > file_len
    /\ IsSome(call.args.limit)
    /\ result = <<"FILE: " \o SamplePath, "(no lines in range)">>

---------------------------------------------------------------------------
(* C8, as stated: the output is the file's lines of the window             *)
(* [offset-1, offset-1+limit) clamped to the file length, in file order,   *)
(* the k-th being file line offset+k-1 labelled with that number.          *)

\* the numbered lines of the 0-based window [offset-1, offset-1+n) of the
\* file, clamped to the file
WindowLines(offset, n) ==
    [k \in 1..Max(0, Min(offset - 1 + n, file_len) - (offset - 1)) |->
        PadLeft6(offset + k - 1) \o "| " \o FileLines[offset + k - 1]]

C8_SliceWindowAsStated ==
    SliceCall => NumberedLines(result) = WindowLines(ArgOffset, ArgLimit)

(* C8, amended: the window is [offset-1, offset-1+min(limit, 2000)).       *)
C8_SliceWindow ==
    SliceCall =>
        NumberedLines(result) = WindowLines(ArgOffset, Min(ArgLimit, MAX_READ_LIMIT))

\* the unit test's call: offset 2, limit 1 on first/second/third
C8_Witness ==
    /\ SliceCall
    /\ FileLines = <<"first", "second", "third">>
    /\ ArgOffset = 2
    /\ ArgLimit = 1
    /\ result = <<"FILE: " \o SamplePath, "     2| second">>

---------------------------------------------------------------------------
(* C5: handle_tool_call answers every name and argument string with a      *)
(* text and never aborts; an unknown name gets "ERROR (<name>): Unknown    *)
(* tool name"; arguments a known tool cannot decode get an error text      *)
(* with the tool's name and the decoder's diagnostic in place of the       *)
(* handler's output.                                                       *)

KnownTools == {"read_file", "search_files"}

\* the decoding the dispatcher attempts for a known tool
Decoded(name, arguments) ==
    IF name = "read_file" THEN DecodeReadFileArgs(arguments)
    ELSE DecodeSearchFilesArgs(arguments)

DecodeErrorText(name, decoded) ==
    <<"ERROR (" \o name \o "): Invalid arguments: " \o decoded.value>>

C5_HandleToolCallTotal ==
    call.fn = "handle_tool_call" =>
        /\ result # Panic
        /\ Len(result) >= 1
        /\ call.name \notin KnownTools =>
               result = <<"ERROR (" \o call.name \o "): Unknown tool name">>
        /\ (call.name \in KnownTools /\ ~Decoded(call.name, call.arguments).ok) =>
               result = DecodeErrorText(call.name, Decoded(call.name, call.arguments))

\* read_file called with arguments that lack the path
C5_Witness ==
    /\ call.fn = "handle_tool_call"
    /\ call.name = "read_file"
    /\ call.arguments = ArgsEmptyObject
    /\ result = <<"ERROR (read_file): Invalid arguments: missing field 'path' at line 1 column 2">>

---------------------------------------------------------------------------
(* read_file, indentation mode, on the one file of the disk.               *)

IsIndentationCall ==
    /\ call.fn = "read_file"
    /\ call.args.mode = Some("indentation")
    /\ IsSome(call.args.indentation)

Options == Unwrap(call.args.indentation)

\* the numbered line of 1-based file line n
FileLine(n) == PadLeft6(n) \o "| " \o FileLines[n]

InOutput(n) == \E i \in 2..Len(result) : result[i] = FileLine(n)

\* the call of the specification's example
ExampleCall(file) ==
    /\ IsIndentationCall
    /\ FileLines = file
    /\ Options.anchor_line = Some(2)
    /\ Options.include_header = Some(FALSE)
    /\ Options.include_siblings = Some(FALSE)
    /\ Options.max_levels = None
    /\ Options.max_lines = None

---------------------------------------------------------------------------
(* C10: without siblings and header and with max_levels unset, an anchor   *)
(* on a line of an indented body with a neighbouring line of the same      *)
(* indentation returns the anchor line and those neighbouring lines, and   *)
(* not the shallower header line above them.                               *)

AnchorLine == Unwrap(Options.anchor_line)

SameIndentNeighbours ==
    {n \in {AnchorLine - 1, AnchorLine + 1} \cap (1..file_len) :
        /\ ~IsBlank(FileLines[n])
        /\ line_indent(FileLines[n]) = line_indent(FileLines[AnchorLine])}

\* the lines above the anchor that are shallower than it
ShallowerAbove ==
    {n \in 1..(AnchorLine - 1) :
        /\ ~IsBlank(FileLines[n])
        /\ line_indent(FileLines[n]) < line_indent(FileLines[AnchorLine])}

BodyCall ==
    /\ IsIndentationCall
    /\ FileReadable
    /\ Options.include_siblings \in {None, Some(FALSE)}
    /\ Options.include_header = Some(FALSE)
    /\ Options.max_levels = None
    /\ Options.max_lines = None
    /\ IsSome(Options.anchor_line)
    /\ AnchorLine \in 1..file_len
    /\ ~IsBlank(FileLines[AnchorLine])
    /\ line_indent(FileLines[AnchorLine]) > 0
    /\ ShallowerAbove # {}
    /\ SameIndentNeighbours # {}

C10_BodyBlock ==
    BodyCall =>
        /\ InOutput(AnchorLine)
        /\ \A n \in SameIndentNeighbours : InOutput(n)
        /\ \A n \in ShallowerAbove : ~InOutput(n)

---------------------------------------------------------------------------
(* The block of an indentation read and of the same read at another anchor. *)

\* the 0-based range the read of the file with these arguments returns
BlockOf(args) == IndentationRange(FileLines, args)

\* the arguments with anchor_line set to the 1-based line l
WithAnchor(args, l) ==
    [args EXCEPT !.indentation =
        Some([Unwrap(args.indentation) EXCEPT !.anchor_line = Some(l)])]

SameBlock(r, q) == r.start_index = q.start_index /\ r.end_index = q.end_index

Within(r, q) == r.start_index >= q.start_index /\ r.end_index <= q.end_index

\* the 1-based lines of the 0-based range r, and those strictly inside it
BlockLines(r) == (r.start_index + 1)..(r.end_index + 1)
InnerLines(r) == (r.start_index + 2)..r.end_index

\* a read of a file with lines, siblings off and max_levels 0
PlainBlockCall ==
    /\ IsIndentationCall
    /\ FileReadable
    /\ file_len > 0
    /\ Options.include_siblings \in {None, Some(FALSE)}
    /\ Options.max_levels \in {None, Some(0)}

\* the result is the block r of the file
ResultIs(r) == result = FormatRangeOf(SamplePath, FileLines, r)

ReanchorSame(args, r) ==
    \A l \in InnerLines(r) : SameBlock(BlockOf(WithAnchor(args, l)), r)

ReanchorWithin(args, r) ==
    \A l \in BlockLines(r) :
        ~IsBlank(FileLines[l]) => Within(BlockOf(WithAnchor(args, l)), r)

(* C11, as stated: with siblings off and max_levels 0, anchoring again on  *)
(* any line strictly inside the returned block returns the same block.     *)
C11_ReanchorAsStated ==
    PlainBlockCall =>
        /\ ResultIs(BlockOf(call.args))
        /\ ReanchorSame(call.args, BlockOf(call.args))

(* C11, amended: with siblings off, max_levels 0, include_header false and *)
(* max_lines unset, anchoring again on a non-blank line of the returned    *)
(* block returns a block that lies within it: its start is not earlier and *)
(* its end is not later.  It need not be the same block.                   *)
C11_Reanchor ==
    (PlainBlockCall /\ Options.max_lines = None
                    /\ Options.include_header = Some(FALSE)) =>
        /\ ResultIs(BlockOf(call.args))
        /\ ReanchorWithin(call.args, BlockOf(call.args))

\* a three-line block whose middle line, anchored, gives that line alone
C11_Witness ==
    /\ PlainBlockCall
    /\ Options.max_lines = None
    /\ Options.include_header = Some(FALSE)
    /\ FileLines = <<" b", "  c", "  c">>
    /\ Options.anchor_line = Some(1)
    /\ Len(result) = 4
    /\ BlockLines(BlockOf(WithAnchor(call.args, 2))) = {2}

---------------------------------------------------------------------------
\* the arguments with include_header set to the flag h
WithHeader(args, h) ==
    [args EXCEPT !.indentation =
        Some([Unwrap(args.indentation) EXCEPT !.include_header = Some(h)])]

\* a read of a file with lines that asks for the header, as is the default
HeaderCall ==
    /\ IsIndentationCall
    /\ FileReadable
    /\ file_len > 0
    /\ Options.include_header \in {None, Some(TRUE)}

NotAfter(r, q) == r.start_index <= q.start_index

(* C12: for every file, anchor and setting of the other options, the block *)
(* returned with include_header true starts no later than the block        *)
(* returned with include_header false.                                     *)
C12_HeaderStart ==
    HeaderCall =>
        /\ ResultIs(BlockOf(call.args))
        /\ NotAfter(BlockOf(call.args), BlockOf(WithHeader(call.args, FALSE)))

\* the header moves the start: line 3 with it, the anchor line 4 without
C12_Witness ==
    /\ HeaderCall
    /\ FileLines = HeaderFile
    /\ Options.anchor_line = Some(4)
    /\ Options.include_siblings = None
    /\ Options.max_levels = None
    /\ result[2] = "     3| fn f() {"
    /\ BlockOf(WithHeader(call.args, FALSE)).start_index = 3

---------------------------------------------------------------------------
\* the arguments with max_lines set to the option m
WithMaxLines(args, m) ==
    [args EXCEPT !.indentation =
        Some([Unwrap(args.indentation) EXCEPT !.max_lines = m])]

Size(r) == r.end_index - r.start_index + 1

\* a read of a file with lines under a cap of at least one line
CappedCall ==
    /\ IsIndentationCall
    /\ FileReadable
    /\ file_len > 0
    /\ IsSome(Options.max_lines)
    /\ Unwrap(Options.max_lines) >= 1

\* r is the block u cut to at most n lines at its end
CutTo(r, u, n) ==
    /\ r.start_index = u.start_index
    /\ r.end_index <= u.end_index
    /\ Size(r) <= n
    /\ Size(u) > n => Size(r) = n

(* C13: max_lines = N >= 1 on a block that has more than N lines without   *)
(* the cap returns exactly N lines; the cap lowers the end boundary only,  *)
(* the start is that of the uncapped block, and at most N lines return.    *)
C13_MaxLines ==
    CappedCall =>
        /\ ResultIs(BlockOf(call.args))
        /\ Len(NumberedLines(result)) = Size(BlockOf(call.args))
        /\ CutTo(BlockOf(call.args), BlockOf(WithMaxLines(call.args, None)),
                 Unwrap(Options.max_lines))

\* a block of more than two lines cut to two
C13_Witness ==
    /\ CappedCall
    /\ Unwrap(Options.max_lines) = 2
    /\ Size(BlockOf(WithMaxLines(call.args, None))) > 2
    /\ Len(NumberedLines(result)) = 2

---------------------------------------------------------------------------
\* the arguments with max_levels set to the option k
WithLevels(args, k) ==
    [args EXCEPT !.indentation =
        Some([Unwrap(args.indentation) EXCEPT !.max_levels = k])]

\* a read of a file with lines that asks for a positive number of levels
LevelsCall ==
    /\ IsIndentationCall
    /\ FileReadable
    /\ file_len > 0
    /\ IsSome(Options.max_levels)
    /\ Unwrap(Options.max_levels) > 0

(* C14: max_levels 0 is unlimited: for every file and anchor the block     *)
(* returned with max_levels 0 starts no later than the block returned with *)
(* any positive max_levels, the other options being the same.              *)
C14_UnlimitedLevels ==
    LevelsCall =>
        /\ ResultIs(BlockOf(call.args))
        /\ NotAfter(BlockOf(WithLevels(call.args, Some(0))), BlockOf(call.args))

---------------------------------------------------------------------------
\* the number of lines of the file's leading header: the lines from the
\* top through the first blank line that follows a non-blank line
HeaderLength == find_header_end(FileLines)

\* the header ends before the block that is computed without it
HeaderBefore(u) == HeaderLength < u.start_index

\* a read that asks for the header, without a cap on the lines
UncappedHeaderCall == HeaderCall /\ Options.max_lines = None

(* C15: with include_header true, when the file's leading header ends      *)
(* before the start of the computed block, the output begins at line 1     *)
(* and holds the lines of the header.                                      *)
C15_HeaderIncluded ==
    (UncappedHeaderCall /\ HeaderBefore(BlockOf(WithHeader(call.args, FALSE)))) =>
        /\ IsFileOutput(result)
        /\ result[2] = FileLine(1)
        /\ \A n \in 1..HeaderLength : InOutput(n)

---------------------------------------------------------------------------
(* search_files on the tree of the disk.                                   *)

SearchCalled == call.fn = "search_files"

SearchDone == SearchCalled /\ call.phase = "done"

\* the components of the search root, when the root is on the disk
RootComps == disk[CHOOSE i \in Lookup(disk, call.args.path) : TRUE].comps

\* the entry lies in a directory named .git or target below the root
InsideIgnored(comps, rootComps) ==
    /\ IsPrefix(rootComps, comps)
    /\ \E n \in (Len(rootComps) + 1)..(Len(comps) - 1) :
           comps[n] \in {".git", "target"}

\* the files of the disk in such a directory
IgnoredFiles ==
    {i \in 1..Len(disk) :
        disk[i].kind = "file" /\ InsideIgnored(disk[i].comps, RootComps)}

\* the line that heads the match of line n of the file at path
MatchHead(path, n) == path \o ":" \o ToString(n)

Reported(path, n) == \E j \in 1..Len(result) : result[j] = MatchHead(path, n)

Recorded(path) == \E j \in 1..Len(call.results) : call.results[j].path = path

\* a scan is under way or over
Scanned == SearchCalled /\ ScanReady(disk, call.args)

(* C16: no match that search_files records or reports lies in a directory  *)
(* named .git or target below the search root, whatever the file holds,    *)
(* and the scan never visits an entry of such a directory.                 *)
C16_IgnoredPruned ==
    Scanned =>
        /\ \A i \in IgnoredFiles :
              /\ ~Recorded(PathStr(disk[i]))
              /\ \A n \in 1..Len(disk[i].lines) : ~Reported(PathStr(disk[i]), n)
        /\ (call.phase = "scan" /\ call.k <= Len(ScanWalk)) =>
              ~InsideIgnored(ScanEntry.comps, RootComps)

\* the search of the repository for "fn" is over: a.rs is reported, the
\* matching line of target/gen.rs is not
C16_Witness ==
    /\ SearchDone
    /\ disk = RepoDisk
    /\ call.args = SearchFilesArgs("repo", "fn", None)
    /\ Reported("repo/a.rs", 1)
    /\ ~Reported("repo/target/gen.rs", 1)
    /\ IgnoredFiles # {}

---------------------------------------------------------------------------
\* the output ends with the truncation notice
Truncated(out) == Len(out) >= 2 /\ out[Len(out)] = "Matches truncated at limit."

\* the matches of an output: each is headed by an empty line, as is the
\* truncation notice; no other line of an output is empty
ReportedCount(out) ==
    Cardinality({j \in 1..Len(out) : out[j] = ""})
    - (IF Truncated(out) THEN 1 ELSE 0)

\* the lines of the disk's files that match the regex of the call
MatchingLines ==
    {<<i, n>> \in (1..Len(disk)) \X (1..(MAX_SEARCH_MATCHES + 1)) :
        /\ disk[i].kind = "file"
        /\ n <= Len(disk[i].lines)
        /\ RegexIsMatch(call.args.regex, disk[i].lines[n])}

(* C17: search_files never holds or reports more than MAX_SEARCH_MATCHES   *)
(* matches: at every point of the scan the recorded matches are at most    *)
(* 50, and so are the matches of the final output, however many lines      *)
(* match.                                                                  *)
C17_MatchCap ==
    SearchCalled =>
        /\ Len(call.results) <= MAX_SEARCH_MATCHES
        /\ SearchDone => ReportedCount(result) <= MAX_SEARCH_MATCHES

\* fifty-two lines match, fifty are recorded and reported
C17_Witness ==
    /\ SearchDone
    /\ Cardinality(MatchingLines) > MAX_SEARCH_MATCHES + 1
    /\ Len(call.results) = MAX_SEARCH_MATCHES
    /\ ReportedCount(result) = MAX_SEARCH_MATCHES

---------------------------------------------------------------------------
\* the file passes the glob of the call, if there is one
PassesGlob(path) ==
    LET globset == build_globset(call.args.file_pattern).value
    IN  IsSome(globset) => GlobIsMatch(Unwrap(globset), path)

\* the matching lines the call has to report: those of the readable files
\* below the root that are in no .git or target directory and pass the glob
DueMatches ==
    {m \in MatchingLines :
        /\ disk[m[1]].readable
        /\ IsPrefix(RootComps, disk[m[1]].comps)
        /\ ~InsideIgnored(disk[m[1]].comps, RootComps)
        /\ PassesGlob(PathStr(disk[m[1]]))}

\* the root is itself no directory named .git or target
PlainRoot == ~is_ignored_dir(RootComps)

(* C18: when fewer than 50 lines match in total, every matching line of    *)
(* every readable file below the root that is in no .git or target         *)
(* directory and passes the glob is reported with its path and its         *)
(* 1-based line number.                                                    *)
C18_FindsMatches ==
    (SearchDone /\ ScanReady(disk, call.args) /\ PlainRoot
        /\ Cardinality(MatchingLines) < MAX_SEARCH_MATCHES) =>
        \A m \in DueMatches : Reported(PathStr(disk[m[1]]), m[2])

\* the same, for trees without a regular file named .git or target
C18_FindsMatchesInPlainFiles ==
    (SearchDone /\ ScanReady(disk, call.args) /\ PlainRoot
        /\ Cardinality(MatchingLines) < MAX_SEARCH_MATCHES) =>
        \A m \in DueMatches :
            \/ Reported(PathStr(disk[m[1]]), m[2])
            \/ is_ignored_dir(disk[m[1]].comps)

---------------------------------------------------------------------------
(* The ceiling within a batch.                                             *)

AssistantMessages ==
    Cardinality({i \in 1..Len(messages) : messages[i].role = "assistant"})

\* the position of the last assistant message
LastAssistant ==
    CHOOSE j \in 1..Len(messages) :
        /\ messages[j].role = "assistant"
        /\ \A k \in (j + 1)..Len(messages) : messages[k].role # "assistant"

\* the calls of the last assistant message
LastBatch == UnwrapOr(messages[LastAssistant].tool_calls, <<>>)

\* the tool messages that follow the last assistant message
Replies == SubSeq(messages, LastAssistant + 1, Len(messages))

LimitHit == pc = "Failed" /\ error = Some(LimitError)

(* C19: whatever the responses and the sizes of their batches, at most     *)
(* MAX_TOOL_CALLS calls are executed and the transcript holds at most that *)
(* many tool messages.  tool_calls_used counts the executed calls up to    *)
(* the ceiling; the call that takes it past the ceiling makes the run      *)
(* Failed at once: that call and the rest of its batch stay unexecuted     *)
(* (pending, without reply and summary) and the last request is the one    *)
(* that brought the batch.                                                 *)
C19_Ceiling ==
    /\ Executed <= MAX_TOOL_CALLS
    /\ tool_calls_used <= MAX_TOOL_CALLS => tool_calls_used = Executed
    /\ tool_calls_used > MAX_TOOL_CALLS <=> LimitHit
    /\ LimitHit =>
          /\ Executed = MAX_TOOL_CALLS
          /\ NoAnswerPrinted
          /\ Len(pending) >= 1
          /\ Len(Replies) + Len(pending) = Len(LastBatch)
          /\ \A i \in 1..Len(Replies) : Replies[i].role = "tool"
          /\ api_requests = AssistantMessages

\* the ninth call opens a batch of two: both stay unexecuted
C19_Witness ==
    /\ LimitHit
    /\ Executed = MAX_TOOL_CALLS
    /\ Len(pending) = 2
    /\ Len(Replies) = 0

---------------------------------------------------------------------------
(* The order of a batch.                                                   *)

\* the ids of a sequence of tool calls and of a sequence of tool messages
IdsOfCalls(calls) == [i \in 1..Len(calls) |-> calls[i].id]
IdsOfReplies(msgs) == [i \in 1..Len(msgs) |-> UnwrapOr(msgs[i].tool_call_id, "")]

\* the messages i+1..i+n are the tool messages of the calls, in their order
AnsweredInOrder(i, calls, n) ==
    /\ i + n <= Len(messages)
    /\ \A k \in 1..n : messages[i + k].role = "tool"
    /\ IdsOfReplies(SubSeq(messages, i + 1, i + n)) = SubSeq(IdsOfCalls(calls), 1, n)

\* the assistant message at i carried calls and was followed by a request
EarlierBatch(i) ==
    /\ messages[i].role = "assistant"
    /\ IsSome(messages[i].tool_calls)
    /\ i < LastAssistant

(* C20: the calls of an assistant message are executed one after the       *)
(* other in the order received, each appending at once the one tool        *)
(* message with its id: at every moment the replies to the last batch are  *)
(* the tool messages of its first calls in order and the rest of the batch *)
(* is pending in order; a request is made only when no call is pending, so *)
(* a batch of k calls that was followed by a request is followed in the    *)
(* transcript by exactly its k tool messages, in order.                    *)
C20_BatchOrder ==
    AssistantMessages >= 1 =>
        /\ AnsweredInOrder(LastAssistant, LastBatch, Len(Replies))
        /\ Len(Replies) + Len(pending) = Len(LastBatch)
        /\ pending = SubSeq(LastBatch, Len(Replies) + 1, Len(LastBatch))
        /\ pc = "AwaitingResponse" => pending = <<>>
        /\ \A i \in 1..Len(messages) :
               EarlierBatch(i) =>
                   /\ AnsweredInOrder(i, Unwrap(messages[i].tool_calls),
                                      Len(Unwrap(messages[i].tool_calls)))
                   /\ messages[i + Len(Unwrap(messages[i].tool_calls)) + 1].role
                          = "assistant"

\* a batch of two calls is answered and the next request can be made
C20_Witness ==
    /\ pc = "AwaitingResponse"
    /\ AssistantMessages >= 2
    /\ Len(LastBatch) = 2
    /\ Len(Replies) = 2
    /\ IdsOfReplies(Replies) = IdsOfCalls(LastBatch)
    /\ LastBatch[1].id # LastBatch[2].id

---------------------------------------------------------------------------
(* Runs whose tool calls fail inside the handler.  A response brings a     *)
(* batch of 1..MaxBatch calls of which at most one fails, at any position; *)
(* the kind of failure goes round the six kinds with the requests made.    *)

FaultyRequests ==
    <<ToolRequest("read_file", ArgsNotJson),
      ToolRequest("list_dir", ArgsEmptyObject),
      ToolRequest("read_file", ArgsReadMissingFile),
      ToolRequest("search_files", ArgsSearchBadRegex),
      ToolRequest("search_files", ArgsSearchNoRoot),
      ToolRequest("search_files", ArgsSearchFileRoot)>>

FaultOfTurn == FaultyRequests[(api_requests % Len(FaultyRequests)) + 1]

\* a batch of n calls whose j-th call is the failing one (none for j = 0)
FaultyBatch(n, j) ==
    [k \in 1..n |->
        IF k = j
        THEN ToolCall(CallId(k), FaultOfTurn.name, FaultOfTurn.arguments)
        ELSE ToolCall(CallId(k), "read_file", ArgsReadSlice)]

FaultyResponse ==
    IF api_requests >= MaxTurns THEN {}
    ELSE {Answer("LGTM")}
         \cup {ToolCallResponse(None, FaultyBatch(n, j)) :
                   n \in 1..MaxBatch, j \in 0..MaxBatch}

NextFaults ==
    \/ AssistantToolCalls(FaultyResponse)
    \/ AssistantAnswer(FaultyResponse)
    \/ ExecuteToolCall
    \/ ToolCallLimitExceeded

SpecFaults == Init /\ [][NextFaults]_vars

\* the output of the handler for a call
OutputOf(c) == handle_tool_call(disk, c.function.name, c.function.arguments)

\* the call at the head of the batch is within the ceiling
HeadRuns == pc = "ProcessingToolCalls" /\ ~OverLimit(tool_calls_used + 1)

\* the step every executed call takes, whatever its output
OrdinaryStep(c, out) ==
    /\ messages' = Append(messages, Message("tool", Some(Text(out)), None, Some(c.id)))
    /\ tool_calls_used' = tool_calls_used + 1
    /\ pending' = Tail(pending)
    /\ pc' = IF Len(pending) > 1 THEN "ProcessingToolCalls" ELSE "AwaitingResponse"
    /\ error' = error
    /\ api_requests' = api_requests

\* a tool message at i holding an error text
ErrorReplyAt(i) ==
    /\ messages[i].role = "tool"
    /\ SubSeq(UnwrapOr(messages[i].content, ""), 1, 7) = "ERROR ("

(* C21: a call whose handler fails (undecodable arguments, unknown tool    *)
(* name, unreadable file, invalid regex, missing or non-directory search   *)
(* root) takes the same step as a call that succeeds: the handler's text   *)
(* is appended as the tool message of the call's id, the counter goes up   *)
(* by one, the run does not fail, and the controller goes on to the next   *)
(* call of the batch or, after the last one, to the next request.          *)
C21_ToolFailureOrdinary ==
    [][HeadRuns => OrdinaryStep(Head(pending), OutputOf(Head(pending)))]_vars

\* each kind of failure has happened, one was followed by the next call of
\* its batch and one by the next response, and the run goes on
C21_Witness ==
    /\ pc = "AwaitingResponse"
    /\ error = None
    /\ \E i \in 1..(Len(messages) - 1) :
          ErrorReplyAt(i) /\ messages[i + 1].role = "tool"
    /\ \E i \in 1..(Len(messages) - 1) :
          ErrorReplyAt(i) /\ messages[i + 1].role = "assistant"
    /\ \A k \in 1..Len(FaultyRequests) :
          \E i \in 1..Len(messages) :
              /\ ErrorReplyAt(i)
              /\ Unwrap(messages[i].content)
                   = Text(handle_tool_call(disk, FaultyRequests[k].name,
                                           FaultyRequests[k].arguments))

---------------------------------------------------------------------------
(* Failed exchanges.                                                       *)

\* the errors OpenAIClient::chat returns
ApiErrors == {chat(raw).value : raw \in FailedExchanges}

ApiFailed == pc = "Failed" /\ error \in {Some(e) : e \in ApiErrors}

\* a request was made and brought no assistant message
ExchangeFailed == api_requests' = api_requests + 1 /\ messages' = messages

(* C22: an exchange that fails (transport error, error status, body that   *)
(* does not parse, error payload, no choices, a first choice that reports  *)
(* an error) makes the run Failed in that very step with the error of the  *)
(* exchange, nothing is printed and no message is appended; and a Failed   *)
(* run takes no further step: no request, no tool call, no answer.         *)
C22_ApiFailureFatal ==
    [][/\ pc # "Failed"
       /\ ExchangeFailed =>
             /\ ApiFailed'
             /\ NoAnswerPrinted'
             /\ UNCHANGED <<stdout, tool_calls_used, pending>>]_vars

\* the exchange failed after a batch of tool calls had been answered
C22_Witness ==
    /\ ApiFailed
    /\ api_requests >= 2
    /\ Executed >= 2
    /\ api_requests = AssistantMessages + 1
    /\ pending = <<>>
    /\ NoAnswerPrinted

---------------------------------------------------------------------------
(* The boundaries of the block without siblings.                           *)

\* a read without siblings, levels, header and cap, of a file with lines
NoSiblingsCall ==
    /\ PlainBlockCall
    /\ Options.include_header = Some(FALSE)
    /\ Options.max_lines = None

\* the 1-based line the anchor resolves to, and its indent
ResolvedAnchor == BlockOf(call.args).anchor_index + 1
BaseIndent == line_indent(FileLines[ResolvedAnchor])

\* the non-blank lines of the set whose indent is at most d
NotDeeper(lineSet, d) ==
    {n \in lineSet : ~IsBlank(FileLines[n]) /\ line_indent(FileLines[n]) <= d}

BoundariesAbove == NotDeeper(1..(ResolvedAnchor - 1), BaseIndent)
BoundariesBelow == NotDeeper((ResolvedAnchor + 1)..file_len, BaseIndent)

Highest(S) == CHOOSE n \in S : \A m \in S : m <= n
Lowest(S) == CHOOSE n \in S : \A m \in S : n <= m

\* the first and the last numbered line of the output
FirstReturned == result[2]
LastReturned == result[Len(result)]

\* the last line of the block: the line before the first boundary below
EndsBeforeBoundary ==
    LastReturned = FileLine(IF BoundariesBelow = {} THEN file_len
                            ELSE Lowest(BoundariesBelow) - 1)

---------------------------------------------------------------------------
(* The ancestor levels above the block.                                    *)

\* the nearest non-blank line above line n whose indent is below d, or 0
NearestShallower(n, d) ==
    LET S == {m \in 1..(n - 1) :
                ~IsBlank(FileLines[m]) /\ line_indent(FileLines[m]) < d}
    IN  IF S = {} THEN 0 ELSE Highest(S)

RECURSIVE Climb(_, _, _)
\* from line n at indent d, the line and indent reached by going up to the
\* next shallower line at most j times
Climb(j, n, d) ==
    IF j = 0 \/ NearestShallower(n, d) = 0 THEN [line |-> n, indent |-> d]
    ELSE Climb(j - 1, NearestShallower(n, d),
               line_indent(FileLines[NearestShallower(n, d)]))

\* a read with max_levels > 0 and without the header
LevelsNoHeaderCall == LevelsCall /\ Options.include_header = Some(FALSE)

\* the first line of the block found before the levels are added
LevelZeroStart == BlockOf(WithLevels(call.args, Some(0))).start_index + 1

\* where max_levels ancestors lead, and the next ancestor above (0: none)
KthAncestor == Climb(Unwrap(Options.max_levels), LevelZeroStart, BaseIndent)
NextAncestor == NearestShallower(KthAncestor.line, KthAncestor.indent)

\* nothing at or above the ancestor beyond the allowed levels is returned
ExcessExcluded == \A n \in 1..NextAncestor : ~InOutput(n)

(* C24, as stated: with max_levels = k > 0 the start moves up once per     *)
(* strictly shallower ancestor line for at most k levels, and when a       *)
(* further shallower line exists it stops at the line of the k-th          *)
(* ancestor; no line of the (k+1)-th ancestor or above it is returned.     *)
C24_LevelsAsStated ==
    LevelsNoHeaderCall =>
        /\ IsFileOutput(result)
        /\ FirstReturned = FileLine(KthAncestor.line)
        /\ ExcessExcluded

(* C24, amended: when a (k+1)-th shallower line exists the block starts at *)
(* the line just after it, so that it holds the k-th ancestor together     *)
(* with the lines between the two; otherwise it starts at the line of the  *)
(* outermost ancestor (at the level-0 start if there is no ancestor).      *)
C24_Levels ==
    LevelsNoHeaderCall =>
        /\ IsFileOutput(result)
        /\ FirstReturned = FileLine(IF NextAncestor = 0 THEN KthAncestor.line
                                    ELSE NextAncestor + 1)
        /\ ExcessExcluded

\* one level allowed, two ancestors, a sibling of the first between them
C24_Witness ==
    /\ LevelsNoHeaderCall
    /\ FileLines = NestedFile
    /\ Options.anchor_line = Some(4)
    /\ Options.max_levels = Some(1)
    /\ KthAncestor.line = 3
    /\ NextAncestor = 1
    /\ FirstReturned = "     2|   fn f() {}"

---------------------------------------------------------------------------
(* The anchor line in the output.                                          *)

\* an indentation read of the file, with any options
AnyIndentationCall == IsIndentationCall /\ FileReadable

\* the first line of the block, which max_lines does not move
UncappedStart == BlockOf(WithMaxLines(call.args, None)).start_index + 1

\* the cap, if there is one, reaches from the start to the anchor
AnchorWithinCap ==
    \/ Options.max_lines = None
    \/ ResolvedAnchor - UncappedStart + 1 <= Max(Unwrap(Options.max_lines), 1)

EmptyRangeOutput == <<"FILE: " \o SamplePath, "(no lines in range)">>

(* C25, as stated: the output of an indentation read holds at least the    *)
(* resolved anchor line, for every file, the empty file included, and      *)
(* every setting of include_siblings, include_header, max_levels and       *)
(* max_lines.                                                              *)
C25_AnchorAsStated ==
    AnyIndentationCall =>
        /\ file_len > 0
        /\ InOutput(ResolvedAnchor)

(* C25, amended: for a file with lines the output holds at least one line, *)
(* and it holds the resolved anchor line exactly when max_lines is unset   *)
(* or reaches from the start of the block to the anchor; for an empty file *)
(* the output is the empty-range marker.                                   *)
C25_Anchor ==
    AnyIndentationCall =>
        IF file_len = 0 THEN result = EmptyRangeOutput
        ELSE /\ IsFileOutput(result)
             /\ result # EmptyRangeOutput
             /\ InOutput(ResolvedAnchor) <=> AnchorWithinCap

\* the header moves the start above the anchor and the cap of one line
\* ends the block before it
C25_Witness ==
    /\ AnyIndentationCall
    /\ FileLines = HeaderFile
    /\ Options.anchor_line = Some(4)
    /\ Options.include_header = Some(TRUE)
    /\ Options.max_lines = Some(1)
    /\ ResolvedAnchor = 4
    /\ result = <<"FILE: " \o SamplePath, "     3| fn f() {">>

\* the empty file
C25_WitnessEmpty ==
    /\ AnyIndentationCall
    /\ file_len = 0
    /\ result = EmptyRangeOutput

---------------------------------------------------------------------------
(* The block with siblings against the block without.                      *)

\* the arguments with include_siblings set to the flag b
WithSiblings(args, b) ==
    [args EXCEPT !.indentation =
        Some([Unwrap(args.indentation) EXCEPT !.include_siblings = Some(b)])]

\* a read with siblings of a file with lines
SiblingsCall ==
    /\ IsIndentationCall
    /\ FileReadable
    /\ file_len > 0
    /\ Options.include_siblings = Some(TRUE)

\* nothing but the sibling scan sets the boundaries
OnlySiblings ==
    /\ Options.include_header = Some(FALSE)
    /\ Options.max_levels \in {None, Some(0)}
    /\ Options.max_lines = None

\* every line of the block found without siblings is in the output
HoldsPlainBlock ==
    \A n \in BlockLines(BlockOf(WithSiblings(call.args, FALSE))) : InOutput(n)

\* the non-blank lines below the anchor that are shallower than it
ShallowerBelow ==
    {n \in (ResolvedAnchor + 1)..file_len :
        ~IsBlank(FileLines[n]) /\ line_indent(FileLines[n]) < BaseIndent}

\* the block reaches from just after the nearest shallower line above the
\* anchor (line 1 without one) to just before the first shallower line
\* below it (the last line without one)
BetweenShallowerLines ==
    /\ FirstReturned = FileLine(NearestShallower(ResolvedAnchor, BaseIndent) + 1)
    /\ LastReturned = FileLine(IF ShallowerBelow = {} THEN file_len
                               ELSE Lowest(ShallowerBelow) - 1)

(* C26, as stated: for every file and anchor, the other options being the  *)
(* same, the block returned with include_siblings true contains the block  *)
(* returned with include_siblings false; its first line follows the        *)
(* nearest non-blank line above with indent < base_indent and its last     *)
(* line precedes the first non-blank line below with indent < base_indent. *)
C26_SiblingsAsStated ==
    SiblingsCall =>
        /\ IsFileOutput(result)
        /\ HoldsPlainBlock
        /\ OnlySiblings => BetweenShallowerLines

(* C26, amended: the containment holds when max_lines is unset, whatever   *)
(* the other options; under a cap the two blocks are cut from different    *)
(* starts.  The boundaries are as stated when neither header, levels nor   *)
(* cap moves them.                                                         *)
C26_Siblings ==
    SiblingsCall =>
        /\ IsFileOutput(result)
        /\ Options.max_lines = None => HoldsPlainBlock
        /\ OnlySiblings => BetweenShallowerLines

\* the body of the test's function: both statements with siblings, the
\* anchor's statement alone without
C26_Witness ==
    /\ SiblingsCall
    /\ OnlySiblings
    /\ FileLines = TestFile
    /\ Options.anchor_line = Some(2)
    /\ BlockLines(BlockOf(WithSiblings(call.args, FALSE))) = {2}
    /\ NearestShallower(ResolvedAnchor, BaseIndent) = 1
    /\ ShallowerBelow = {4}
    /\ result = <<"FILE: " \o SamplePath, FileLine(2), FileLine(3)>>

---------------------------------------------------------------------------
(* The truncation notice.                                                  *)

\* the matching lines of the files the walk opens that are not reported
LeftOut ==
    {m \in DueMatches :
        /\ ~is_ignored_dir(disk[m[1]].comps)
        /\ ~Reported(PathStr(disk[m[1]]), m[2])}

\* a search that ran to its end on a valid root, regex and glob
SearchRan == SearchDone /\ ScanReady(disk, call.args) /\ PlainRoot

(* C27: the output of a search ends with "Matches truncated at limit." if  *)
(* and only if at least one matching line of a file the search opens under *)
(* the root is missing from the reported matches; when every matching line *)
(* is reported there is no notice.                                         *)
C27_NoticeIffTruncated ==
    SearchRan => (Truncated(result) <=> LeftOut # {})

\* what holds: the notice is there exactly when MAX_SEARCH_MATCHES or more
\* matching lines were met, and a line left out always brings the notice
C27_NoticeAtLimit ==
    SearchRan =>
        /\ Truncated(result) <=> call.total_matches >= MAX_SEARCH_MATCHES
        /\ LeftOut # {} => Truncated(result)

\* exactly MAX_SEARCH_MATCHES lines match: all are reported, with the notice
C27_FalseNotice ==
    /\ SearchRan
    /\ Cardinality(DueMatches) = MAX_SEARCH_MATCHES
    /\ ReportedCount(result) = MAX_SEARCH_MATCHES
    /\ LeftOut = {}
    /\ Truncated(result)

============================================================================
